---- MODULE Spec2Model ----
(***************************************************************************)
(* Model of the announcement bot's scheduling and durable-state core:      *)
(*   utils/scheduler.py   Scheduler (job table + APScheduler date timers)  *)
(*   utils/vrchat_api.py  VRChatAPI.post_announcement (re-auth and retry)  *)
(*   cogs/announcement.py AnnouncementCog (approval / completion glue)     *)
(*   cogs/admin.py        AdminCog.cancel_job                              *)
(* Handlers are coroutines on one event loop: an action of the model is    *)
(* the code that runs between two suspension points (awaits that really    *)
(* yield to the loop).                                                     *)
(***************************************************************************)
EXTENDS Integers, Sequences, FiniteSets, TLC

\* ---------------------------------------------------------------- bounds
MaxMsgs == 1
MaxJobs == 2
MaxTasks == 2
MaxRestores == 1
MaxRestoreLen == 2
MaxStoreIds == 3
MaxCap == 2
MaxStoreOps == 4
MaxCalIds == 1
MaxTitledLen == 1
MaxOtpRounds == 3
MaxOtpRequests == 3
MaxOtpMessages == 3
MaxEvents == 2

\* ------------------------------------------------------ program constants
GRACE_TIME == 3600
STALE_LIMIT == 3600
DEFAULT_GRACE == 1
HISTORY_LIMIT == 1000
DEFAULT_MAX_HISTORY == 1000
\* the event of an announcement starts a minute after it is announced
EVENT_DELAY == 60
EVENT_LENGTH == 3600

Msgs == 1..MaxMsgs
JobIdSet == 1..MaxJobs
TaskIds == 1..MaxTasks
\* instants the clock visits and the NL extraction can name
TimeSet == {0, 1, GRACE_TIME + 1}

None == 0

\* ------------------------------------------------------- message constants
\* utils/messages.py: texts as sequences of words, so that the substring
\* test of the scheduler is computed and not assumed
AUTH_FAIL_RETRY == <<"Authentication", "failed", ",", "will", "retry", "after", "reauth">>
NOT_AUTHENTICATED == <<"Not", "authenticated">>
\* str(e) of the exceptions the venue platform client raises
API_ERROR_TEXT == <<"(500)", "Reason:", "Internal", "Server", "Error">>
UNAUTHORIZED_TEXT == <<"(401)", "Reason:", "Unauthorized">>
AUTH_NEEDLE == <<"Authentication", "failed">>

\* Python's `needle in text`
Contains(needle, text) ==
    \E i \in 0..(Len(text) - Len(needle)) :
        \A k \in 1..Len(needle) : text[i + k] = needle[k]

Ok == [success |-> TRUE, error |-> <<>>]
Fail(text) == [success |-> FALSE, error |-> text]
NoRes == [success |-> FALSE, error |-> <<"-">>]

VARIABLES
    now,                  \* wall clock (time.time())
    authenticated,        \* VRChatAPI.authenticated
    jobs,                 \* Scheduler.jobs, a dict in insertion order
    timers,               \* APScheduler job store: job id -> [run_date, grace]
    nextId,               \* uuid4 source: ids are never reused
    pending_requests,     \* AnnouncementCog.pending_requests: msg -> reply id | None
    queued_announcements, \* AnnouncementCog.queued_announcements
    history,              \* AnnouncementCog.history
    calendar_events,      \* AnnouncementCog.calendar_events
    persisted,            \* what save_state last wrote
    tasks,                \* coroutines suspended at an await
    execState,            \* per job: how its execution by the timer ended
    cbLog,                \* per job: status arguments of the completion callback
    cancelled,            \* job ids for which cancel_job returned True
    restoreCalls,         \* direct calls of restore_jobs made so far
    store,                \* an AnnouncementState object
    storeLog,             \* the calls made on it: count, mark_completed arguments, last call
    login,                \* VRChatAPI: the authentication in progress and its steps
    otp_requests,         \* AnnouncementCog.otp_requests: request id -> future
    otpCalls,             \* the calls of _request_otp: where each one is, what it returned
    created               \* per request: calendar events created on the venue platform

schedVars == <<jobs, timers, nextId>>
cogVars == <<pending_requests, queued_announcements, history, calendar_events, persisted>>
ghostVars == <<execState, cbLog, cancelled, restoreCalls, store, storeLog>>
extVars == <<login, otp_requests, otpCalls, created>>
vars == <<now, authenticated, jobs, timers, nextId, pending_requests,
          queued_announcements, history, calendar_events, persisted, tasks,
          execState, cbLog, cancelled, restoreCalls, store, storeLog,
          login, otp_requests, otpCalls, created>>

\* ------------------------------------------------------------ dict helpers
Range(s) == {s[i] : i \in DOMAIN s}
JobIdsOf(js) == {js[i].id : i \in DOMAIN js}
JobAt(js, id) == js[CHOOSE i \in DOMAIN js : js[i].id = id]
\* del self.jobs[job_id]
DelJob(js, id) == SelectSeq(js, LAMBDA j : j.id # id)
\* self.jobs[job_id] = rec : an existing key keeps its position
PutJob(js, rec) ==
    IF rec.id \in JobIdsOf(js)
    THEN [i \in DOMAIN js |-> IF js[i].id = rec.id THEN rec ELSE js[i]]
    ELSE Append(js, rec)
SetStatus(js, id, st) ==
    [i \in DOMAIN js |-> IF js[i].id = id THEN [js[i] EXCEPT !.status = st] ELSE js[i]]
\* dict.pop(key, None) on a function
DropKey(f, k) == [x \in (DOMAIN f) \ {k} |-> f[x]]
PutKey(f, k, v) == [x \in (DOMAIN f) \cup {k} |-> IF x = k THEN v ELSE f[x]]

\* ------------------------------------------------------------- Scheduler
NewJob(id, message_id, timestamp) ==
    [id |-> id, message_id |-> message_id, timestamp |-> timestamp,
     status |-> "pending"]

\* Scheduler.schedule_announcement: a date timer with misfire_grace_time=3600
\* and a pending record under a fresh id
schedule_announcement(js, tm, id, timestamp, message_id) ==
    [jobs |-> PutJob(js, NewJob(id, message_id, timestamp)),
     timers |-> PutKey(tm, id, [run_date |-> timestamp, grace |-> GRACE_TIME])]

\* Scheduler.cancel_job: True only when the record exists and
\* APScheduler.remove_job finds the timer (else JobLookupError -> False)
CancelResult(js, tm, id) == id \in JobIdsOf(js) /\ id \in DOMAIN tm
\* cancel_job that removes the timer and forgets to delete the record
cancel_job_keeps_record(js, tm, id) ==
    IF CancelResult(js, tm, id)
    THEN [jobs |-> js, timers |-> DropKey(tm, id), result |-> TRUE]
    ELSE [jobs |-> js, timers |-> tm, result |-> FALSE]
\* cancel_job that deletes the record although remove_job raised
cancel_job_drops_fired(js, tm, id) ==
    IF id \in JobIdsOf(js)
    THEN [jobs |-> DelJob(js, id), timers |-> DropKey(tm, id),
          result |-> id \in DOMAIN tm]
    ELSE [jobs |-> js, timers |-> tm, result |-> FALSE]

\* cancel_job that deletes the record and leaves the timer armed
cancel_job_keeps_timer(js, tm, id) ==
    IF CancelResult(js, tm, id)
    THEN [jobs |-> DelJob(js, id), timers |-> tm, result |-> TRUE]
    ELSE [jobs |-> js, timers |-> tm, result |-> FALSE]
cancel_job(js, tm, id) ==
    IF CancelResult(js, tm, id)
    THEN [jobs |-> DelJob(js, id), timers |-> DropKey(tm, id), result |-> TRUE]
    ELSE [jobs |-> js, timers |-> tm, result |-> FALSE]

\* Scheduler.get_job_by_message_id: first record in dict order, or None
HasJobFor(js, m) == \E i \in DOMAIN js : js[i].message_id = m
get_job_by_message_id(js, m) ==
    js[CHOOSE i \in DOMAIN js :
          /\ js[i].message_id = m
          /\ \A k \in 1..(i - 1) : js[k].message_id # m]

\* Scheduler.cancel_job_by_message_id: cancel_job of the first match only
cancel_job_by_message_id(js, tm, m) ==
    IF HasJobFor(js, m)
    THEN cancel_job(js, tm, get_job_by_message_id(js, m).id)
    ELSE [jobs |-> js, timers |-> tm, result |-> FALSE]

\* list_jobs that returns every record of the table
list_jobs_all(js, tm) == js

\* Scheduler.list_jobs: records whose timer still exists
list_jobs(js, tm) == SelectSeq(js, LAMBDA j : j.id \in DOMAIN tm)

\* Scheduler.get_jobs_data
get_jobs_data(js) == js

\* one iteration of the loop of Scheduler.restore_jobs on snapshot d;
\* add_job on a running scheduler raises ConflictingIdError for an id that
\* is in the job store, and the except clause drops the snapshot
RestoreOne(acc, d, t) ==
    IF d.timestamp <= t
    THEN [acc EXCEPT !.skipped = Append(@, d)]
    ELSE IF d.id \in DOMAIN acc.timers
    THEN acc
    ELSE [acc EXCEPT !.timers = PutKey(@, d.id, [run_date |-> d.timestamp,
                                                 grace |-> DEFAULT_GRACE]),
                     !.jobs = PutJob(@, d),
                     !.count = @ + 1]

RECURSIVE RestoreLoop(_, _, _)
RestoreLoop(acc, list, t) ==
    IF list = <<>> THEN acc
    ELSE RestoreLoop(RestoreOne(acc, Head(list), t), Tail(list), t)

\* Scheduler.restore_jobs: (restored_count, skipped_jobs) and the new tables
restore_jobs(js, tm, list, t) ==
    RestoreLoop([jobs |-> js, timers |-> tm, count |-> 0, skipped |-> <<>>],
                list, t)

\* ------------------------------------------------------- AnnouncementCog
CogState == [p |-> pending_requests, q |-> queued_announcements,
             h |-> history, c |-> calendar_events, s |-> persisted]

\* history.append with the 1000-item limit
HistoryAdd(h, m) ==
    IF m \in Range(h) THEN h
    ELSE LET h2 == Append(h, m)
         IN IF Len(h2) > HISTORY_LIMIT
            THEN SubSeq(h2, Len(h2) - HISTORY_LIMIT + 1, Len(h2))
            ELSE h2

\* the persistence collaborator as the cog calls it: a key-value store
\* written and read synchronously
save_data(s, key, data) == [s EXCEPT ![key] = data]
load_data(s, key, default) == IF key \in DOMAIN s THEN s[key] ELSE default

\* AnnouncementCog.save_state
save_state(cs, js) ==
    [cs EXCEPT !.s = save_data(save_data(save_data(save_data(@,
                         "pending", cs.p), "history", cs.h),
                         "jobs", get_jobs_data(js)), "calendar", cs.c)]

\* _on_job_complete that forgets to take the request out of the queue
on_job_complete_keeps_queued(cs, js, job_data) ==
    LET m == job_data.message_id
    IN save_state([cs EXCEPT !.h = HistoryAdd(@, m),
                             !.p = DropKey(@, m)], js)

\* AnnouncementCog._on_job_complete (it catches its own exceptions)
on_job_complete(cs, js, job_data) ==
    LET m == job_data.message_id
    IN save_state([cs EXCEPT !.h = HistoryAdd(@, m),
                             !.q = @ \ {m},
                             !.p = DropKey(@, m)], js)

\* find the request a bot reply belongs to (loops at announcement.py 245, 268, 352)
RequestOfReply(p, r) ==
    IF \E m \in DOMAIN p : p[m] = r
    THEN CHOOSE m \in DOMAIN p : p[m] = r
    ELSE None

\* ------------------------------------------------------------- VRChatAPI
PostOutcomes == {"ok", "unauthorized", "error"}
ExcText(o) == IF o = "unauthorized" THEN UNAUTHORIZED_TEXT ELSE API_ERROR_TEXT

\* post_announcement that skips the authenticated check
PostFirstUnchecked(auth, o1) ==
    IF o1 = "ok"
    THEN [done |-> TRUE, res |-> Ok, trace |-> <<"post_ok">>]
    ELSE IF o1 = "unauthorized"
    THEN [done |-> FALSE, res |-> NoRes, trace |-> <<"post_unauthorized">>]
    ELSE [done |-> TRUE, res |-> Fail(ExcText(o1)), trace |-> <<"post_error">>]

\* VRChatAPI.post_announcement up to its first await: the authenticated
\* check and the first add_group_post, whose outcome is o1.  An
\* UnauthorizedException suspends the call in _authenticate.
PostFirst(auth, o1) ==
    IF ~auth
    THEN [done |-> TRUE, res |-> Fail(NOT_AUTHENTICATED), trace |-> <<>>]
    ELSE IF o1 = "ok"
    THEN [done |-> TRUE, res |-> Ok, trace |-> <<"post_ok">>]
    ELSE IF o1 = "unauthorized"
    THEN [done |-> FALSE, res |-> NoRes, trace |-> <<"post_unauthorized">>]
    ELSE [done |-> TRUE, res |-> Fail(ExcText(o1)), trace |-> <<"post_error">>]

\* post_announcement that re-authenticates and posts again after a second
\* UnauthorizedException
PostRetryAgain(trace, authOk, o2) ==
    IF ~authOk
    THEN [res |-> Fail(AUTH_FAIL_RETRY), trace |-> Append(trace, "reauth_fail")]
    ELSE IF o2 = "ok"
    THEN [res |-> Ok, trace |-> trace \o <<"reauth_ok", "post_ok">>]
    ELSE IF o2 = "unauthorized"
    THEN [res |-> Ok, trace |-> trace \o <<"reauth_ok", "post_unauthorized",
                                           "reauth_ok", "post_ok">>]
    ELSE [res |-> Fail(ExcText(o2)), trace |-> trace \o <<"reauth_ok", "post_error">>]

\* VRChatAPI.post_announcement after _authenticate returned (authOk): the
\* single retry with outcome o2, or the "will retry" error
PostRetry(trace, authOk, o2) ==
    IF ~authOk
    THEN [res |-> Fail(AUTH_FAIL_RETRY), trace |-> Append(trace, "reauth_fail")]
    ELSE IF o2 = "ok"
    THEN [res |-> Ok, trace |-> trace \o <<"reauth_ok", "post_ok">>]
    ELSE [res |-> Fail(ExcText(o2)),
          trace |-> trace \o <<"reauth_ok", IF o2 = "unauthorized"
                                             THEN "post_unauthorized"
                                             ELSE "post_error">>]

\* VRChatAPI.create_group_calendar_event up to its first await: the
\* authenticated check and the first CalendarApi call with outcome o1
CreateFirst(auth, o1) ==
    IF ~auth
    THEN [done |-> TRUE, res |-> Fail(NOT_AUTHENTICATED), trace |-> <<>>]
    ELSE IF o1 = "ok"
    THEN [done |-> TRUE, res |-> Ok, trace |-> <<"create_ok">>]
    ELSE IF o1 = "unauthorized"
    THEN [done |-> FALSE, res |-> NoRes, trace |-> <<"create_unauthorized">>]
    ELSE [done |-> TRUE, res |-> Fail(ExcText(o1)), trace |-> <<"create_error">>]

\* create_group_calendar_event that calls the CalendarApi once more when
\* the re-authentication failed
CreateRetryInvokesAgain(trace, authOk, o2) ==
    IF ~authOk
    THEN [res |-> IF o2 = "ok" THEN Ok ELSE Fail(AUTH_FAIL_RETRY),
          trace |-> trace \o <<"reauth_fail", IF o2 = "ok"
                                               THEN "create_ok"
                                               ELSE "create_unauthorized">>]
    ELSE IF o2 = "ok"
    THEN [res |-> Ok, trace |-> trace \o <<"reauth_ok", "create_ok">>]
    ELSE [res |-> Fail(ExcText(o2)),
          trace |-> trace \o <<"reauth_ok", IF o2 = "unauthorized"
                                             THEN "create_unauthorized"
                                             ELSE "create_error">>]

\* create_group_calendar_event after _authenticate returned (authOk)
CreateRetry(trace, authOk, o2) ==
    IF ~authOk
    THEN [res |-> Fail(AUTH_FAIL_RETRY), trace |-> Append(trace, "reauth_fail")]
    ELSE IF o2 = "ok"
    THEN [res |-> Ok, trace |-> trace \o <<"reauth_ok", "create_ok">>]
    ELSE [res |-> Fail(ExcText(o2)),
          trace |-> trace \o <<"reauth_ok", IF o2 = "unauthorized"
                                             THEN "create_unauthorized"
                                             ELSE "create_error">>]

\* VRChatAPI.delete_group_calendar_event up to its first await
DeleteFirst(auth, o1) ==
    IF ~auth
    THEN [done |-> TRUE, res |-> Fail(NOT_AUTHENTICATED), trace |-> <<>>]
    ELSE IF o1 = "ok"
    THEN [done |-> TRUE, res |-> Ok, trace |-> <<"delete_ok">>]
    ELSE IF o1 = "unauthorized"
    THEN [done |-> FALSE, res |-> NoRes, trace |-> <<"delete_unauthorized">>]
    ELSE [done |-> TRUE, res |-> Fail(ExcText(o1)), trace |-> <<"delete_error">>]

\* delete_group_calendar_event after _authenticate returned (authOk)
DeleteRetry(trace, authOk, o2) ==
    IF ~authOk
    THEN [res |-> Fail(AUTH_FAIL_RETRY), trace |-> Append(trace, "reauth_fail")]
    ELSE IF o2 = "ok"
    THEN [res |-> Ok, trace |-> trace \o <<"reauth_ok", "delete_ok">>]
    ELSE [res |-> Fail(ExcText(o2)),
          trace |-> trace \o <<"reauth_ok", IF o2 = "unauthorized"
                                             THEN "delete_unauthorized"
                                             ELSE "delete_error">>]

\* the three wrapped calls of VRChatAPI
ApiOps == {"post_announcement", "create_group_calendar_event",
           "delete_group_calendar_event"}
ApiFirst(op, auth, o1) ==
    IF op = "post_announcement" THEN PostFirst(auth, o1)
    ELSE IF op = "create_group_calendar_event" THEN CreateFirst(auth, o1)
    ELSE DeleteFirst(auth, o1)
ApiRetry(op, trace, authOk, o2) ==
    IF op = "post_announcement" THEN PostRetry(trace, authOk, o2)
    ELSE IF op = "create_group_calendar_event" THEN CreateRetry(trace, authOk, o2)
    ELSE DeleteRetry(trace, authOk, o2)

\* ------------------------------------------- Scheduler._post_announcement
\* the completion callback: the cog's _on_job_complete, or (mock) a
\* collaborator that leaves the cog alone
Callback(mock, cs, js, job_data) ==
    IF mock THEN cs ELSE on_job_complete(cs, js, job_data)

\* _post_announcement that marks the Job failed and returns without
\* telling the completion callback
FailAndNotifyQuietly(mock, cs, js, log, j, r1, tag) ==
    IF j \notin JobIdsOf(js)
    THEN [jobs |-> js, cs |-> cs, log |-> log, exec |-> "lost"]
    ELSE [jobs |-> SetStatus(js, j, "failed"), cs |-> cs, log |-> log,
          exec |-> tag]

\* _post_announcement from "status = failed" to its return when the
\* callback is to be fired (scheduler.py 72-76 and 86, 94-110); r1 tells
\* whether the callback raises, which sends control to the except clause,
\* where the record is still present and the callback is called again
FailAndNotify(mock, cs, js, log, j, r1, tag) ==
    IF j \notin JobIdsOf(js)
    THEN [jobs |-> js, cs |-> cs, log |-> log, exec |-> "lost"]
    ELSE LET js1 == SetStatus(js, j, "failed")
             data == JobAt(js1, j)
             cs1 == Callback(mock, cs, js1, data)
         IN IF r1
            THEN [jobs |-> js1, cs |-> Callback(mock, cs1, js1, data),
                  log |-> log \o <<data.status, data.status>>, exec |-> tag]
            ELSE [jobs |-> js1, cs |-> cs1,
                  log |-> Append(log, data.status), exec |-> tag]

\* _post_announcement without the early return on an authentication error
FinishJobAlwaysNotify(mock, cs, js, log, j, res, r1) ==
    IF j \notin JobIdsOf(js)
    THEN [jobs |-> js, cs |-> cs, log |-> log, exec |-> "lost"]
    ELSE IF res.success
    THEN LET js1 == SetStatus(js, j, "success")
             data == JobAt(js1, j)
             js2 == DelJob(js1, j)
         IN [jobs |-> js2, cs |-> Callback(mock, cs, js2, data),
             log |-> Append(log, data.status), exec |-> "success"]
    ELSE FailAndNotify(mock, cs, js, log, j, r1,
                       IF Contains(AUTH_NEEDLE, res.error) THEN "auth_pending"
                       ELSE "failed")

\* _post_announcement that deletes the record after a failed post too
FinishJobDropsFailed(mock, cs, js, log, j, res, r1) ==
    IF j \notin JobIdsOf(js)
    THEN [jobs |-> js, cs |-> cs, log |-> log, exec |-> "lost"]
    ELSE IF res.success
    THEN LET js1 == SetStatus(js, j, "success")
             data == JobAt(js1, j)
             js2 == DelJob(js1, j)
         IN [jobs |-> js2, cs |-> Callback(mock, cs, js2, data),
             log |-> Append(log, data.status), exec |-> "success"]
    ELSE IF Contains(AUTH_NEEDLE, res.error)
    THEN [jobs |-> SetStatus(js, j, "failed"), cs |-> cs, log |-> log,
          exec |-> "auth_pending"]
    ELSE LET f == FailAndNotify(mock, cs, js, log, j, r1, "failed")
         IN [f EXCEPT !.jobs = DelJob(@, j)]

\* _post_announcement from the post's result to its return (scheduler.py 81-110)
FinishJob(mock, cs, js, log, j, res, r1) ==
    IF j \notin JobIdsOf(js)
    THEN [jobs |-> js, cs |-> cs, log |-> log, exec |-> "lost"]
    ELSE IF res.success
    THEN LET js1 == SetStatus(js, j, "success")
             data == JobAt(js1, j)
             js2 == DelJob(js1, j)
         IN [jobs |-> js2, cs |-> Callback(mock, cs, js2, data),
             log |-> Append(log, data.status), exec |-> "success"]
    ELSE IF Contains(AUTH_NEEDLE, res.error)
    THEN [jobs |-> SetStatus(js, j, "failed"), cs |-> cs, log |-> log,
          exec |-> "auth_pending"]
    ELSE FailAndNotify(mock, cs, js, log, j, r1, "failed")

\* ------------------------------------------------------------------ tasks
\* a suspended coroutine: its kind, the await it waits at, and its locals
Idle == [kind |-> "idle", pc |-> "-", msg |-> None, job |-> None,
         reply |-> None, trace |-> <<>>, res |-> NoRes,
         timestamp |-> 0, due |-> 0, at |-> 0, user |-> "-"]
JobTask(j, pc, trace) == [Idle EXCEPT !.kind = "job", !.pc = pc, !.job = j,
                                      !.trace = trace]
CogTask(kind, pc, m) == [Idle EXCEPT !.kind = kind, !.pc = pc, !.msg = m]
Free(t) == tasks[t].kind = "idle"
\* the lowest free slot
Slot(t) == Free(t) /\ \A u \in 1..(t - 1) : ~Free(u)
\* the id of the bot's reply to request m (one live reply per request)
ReplyOf(m) == MaxMsgs + m

\* ------------------------------------------------------ AnnouncementState
StoreIds == 1..MaxStoreIds
CalIds == 1..MaxCalIds

\* AnnouncementState.__init__
NewState(max_history) ==
    [pending_requests |-> <<>>, queued_announcements |-> {}, history |-> <<>>,
     calendar_events |-> <<>>, max_history |-> max_history]

\* Persistence.save_data: the document `key` is replaced by {'data': data}
persistence_save_data(db, key, data) == PutKey(db, key, [data |-> data])

\* Persistence.load_data that hands back the whole document
persistence_load_document(db, key, default) ==
    IF key \in DOMAIN db THEN db[key] ELSE default

\* Persistence.load_data: the 'data' field of the document `key`, or the
\* default when the document or the field does not exist
persistence_load_data(db, key, default) ==
    IF key \in DOMAIN db
    THEN (IF "data" \in DOMAIN db[key] THEN db[key].data ELSE default)
    ELSE default

\* AnnouncementState.save
save(st, db) ==
    persistence_save_data(
        persistence_save_data(
            persistence_save_data(db, "pending", st.pending_requests),
            "history", st.history),
        "calendar", st.calendar_events)

\* AnnouncementState.load
load(st, db) ==
    [st EXCEPT !.pending_requests = persistence_load_data(db, "pending", <<>>),
               !.history = persistence_load_data(db, "history", <<>>),
               !.calendar_events = persistence_load_data(db, "calendar", <<>>)]

\* Python's lst[-n:] : the last n items, and the whole list for n = 0
LastItems(lst, n) ==
    IF n = 0 \/ n >= Len(lst) THEN lst
    ELSE SubSeq(lst, Len(lst) - n + 1, Len(lst))

\* dict.pop(key, None) / dict.get(key) : the value, or None
GetOrNone(f, k) == IF k \in DOMAIN f THEN f[k] ELSE None

\* AnnouncementState.add_pending
add_pending(st, m) ==
    [st EXCEPT !.pending_requests = PutKey(@, m, None)]

\* AnnouncementState.mark_queued
mark_queued(st, m, bot_reply_id) ==
    [st EXCEPT !.pending_requests = PutKey(@, m, bot_reply_id),
               !.queued_announcements = @ \cup {m}]

\* mark_completed that trims to capacity keeping the oldest ids
mark_completed_keeps_oldest(st, m) ==
    [st EXCEPT !.history = IF m \in Range(@) THEN @
                           ELSE IF Len(@) + 1 > st.max_history
                           THEN SubSeq(Append(@, m), 1, st.max_history)
                           ELSE Append(@, m),
               !.queued_announcements = @ \ {m},
               !.pending_requests = DropKey(@, m)]
\* AnnouncementState.mark_completed
mark_completed(st, m) ==
    [st EXCEPT !.history = IF m \in Range(@) THEN @
                           ELSE IF Len(@) + 1 > st.max_history
                           THEN LastItems(Append(@, m), st.max_history)
                           ELSE Append(@, m),
               !.queued_announcements = @ \ {m},
               !.pending_requests = DropKey(@, m)]

\* cancel that reads the calendar event id and leaves it in the map
cancel_keeps_calendar(st, m) ==
    [state |-> [st EXCEPT !.queued_announcements = @ \ {m},
                          !.pending_requests = PutKey(@, m, None)],
     ret |-> GetOrNone(st.calendar_events, m)]
\* AnnouncementState.cancel: the new state and the returned value
cancel(st, m) ==
    [state |-> [st EXCEPT !.queued_announcements = @ \ {m},
                          !.pending_requests = PutKey(@, m, None),
                          !.calendar_events = DropKey(@, m)],
     ret |-> GetOrNone(st.calendar_events, m)]

\* AnnouncementState.set_calendar_event
set_calendar_event(st, m, event_id) ==
    [st EXCEPT !.calendar_events = PutKey(@, m, event_id)]

\* AnnouncementState.remove_calendar_event
remove_calendar_event(st, m) ==
    [state |-> [st EXCEPT !.calendar_events = DropKey(@, m)],
     ret |-> GetOrNone(st.calendar_events, m)]

\* no call made yet
NoCalls == [n |-> 0, completed |-> <<>>, op |-> "-", arg |-> None,
            ret |-> None, before |-> NewState(0)]

InitGhost ==
    /\ execState = [j \in JobIdSet |-> "none"]
    /\ cbLog = [j \in JobIdSet |-> <<>>]
    /\ cancelled = [j \in JobIdSet |-> 0]
    /\ restoreCalls = 0

\* VRChatAPI after __init__: no authentication in progress
NoAuth == [pc |-> "idle", entry |-> "-", otp_type |-> "-", rounds |-> 0,
           log |-> <<>>, result |-> "-", ret |-> "-"]

\* nothing asked of the venue platform or of the admins yet
InitExt ==
    /\ login = NoAuth
    /\ otp_requests = <<>>
    /\ otpCalls = <<>>
    /\ created = [m \in Msgs |-> 0]

NoPersisted == [pending |-> <<>>, history |-> <<>>, jobs |-> <<>>,
                calendar |-> <<>>]

\* the program after construction (an AnnouncementState aside)
InitProgram ==
    /\ now = 0
    /\ authenticated = FALSE
    /\ jobs = <<>>
    /\ timers = <<>>
    /\ nextId = 1
    /\ pending_requests = <<>>
    /\ queued_announcements = {}
    /\ history = <<>>
    /\ calendar_events = <<>>
    /\ persisted = NoPersisted
    /\ tasks = [t \in TaskIds |-> Idle]
    /\ InitGhost
    /\ InitExt

Init ==
    /\ InitProgram
    /\ store = NewState(DEFAULT_MAX_HISTORY)
    /\ storeLog = NoCalls

\* write a cog state record back to the variables
SetCog(cs) ==
    /\ pending_requests' = cs.p
    /\ queued_announcements' = cs.q
    /\ history' = cs.h
    /\ calendar_events' = cs.c
    /\ persisted' = cs.s

\* the clock moves on
Advance ==
    /\ \E t \in TimeSet : t > now /\ now' = t
    /\ UNCHANGED <<authenticated, schedVars, cogVars, tasks, ghostVars, extVars>>

\* bot.py on_ready: VRChatAPI.initialize succeeds
Login ==
    /\ ~authenticated
    /\ authenticated' = TRUE
    /\ UNCHANGED <<now, schedVars, cogVars, tasks, ghostVars, extVars>>

\* write the outcome r of FinishJob / FailAndNotify for job j back
SetJobOutcome(j, r) ==
    /\ jobs' = r.jobs
    /\ SetCog(r.cs)
    /\ cbLog' = [cbLog EXCEPT ![j] = r.log]
    /\ execState' = [execState EXCEPT ![j] = r.exec]

\* the timer of job j comes due: APScheduler takes the date job out of the
\* store and, unless it is later than its grace time, runs
\* _post_announcement up to its first await or to its end
Fire(j, mock) ==
    /\ j \in DOMAIN timers
    /\ now >= timers[j].run_date
    /\ timers' = DropKey(timers, j)
    /\ UNCHANGED <<now, nextId, cancelled, restoreCalls, store, storeLog, extVars>>
    /\ IF now - timers[j].run_date > timers[j].grace
       THEN /\ execState' = [execState EXCEPT ![j] = "missed"]
            /\ UNCHANGED <<authenticated, jobs, cogVars, tasks, cbLog>>
       ELSE IF ~authenticated
       THEN \E t \in TaskIds :
               /\ Slot(t)
               /\ tasks' = [tasks EXCEPT ![t] = JobTask(j, "initialize", <<>>)]
               /\ execState' = [execState EXCEPT ![j] = "running"]
               /\ UNCHANGED <<authenticated, jobs, cogVars, cbLog>>
       ELSE \E o1 \in PostOutcomes, r1 \in {FALSE, mock} :
               LET p == PostFirst(authenticated, o1)
               IN IF p.done
                  THEN /\ SetJobOutcome(j, FinishJob(mock, CogState, jobs, cbLog[j], j, p.res, r1))
                       /\ UNCHANGED <<authenticated, tasks>>
                  ELSE \E t \in TaskIds :
                          /\ Slot(t)
                          /\ tasks' = [tasks EXCEPT ![t] = JobTask(j, "reauth", p.trace)]
                          /\ execState' = [execState EXCEPT ![j] = "running"]
                          /\ UNCHANGED <<authenticated, jobs, cogVars, cbLog>>

\* _post_announcement resumes from `await self.vrchat_api.initialize()`
JobInitialized(t, mock) ==
    /\ tasks[t].kind = "job" /\ tasks[t].pc = "initialize"
    /\ UNCHANGED <<now, timers, nextId, cancelled, restoreCalls, store, storeLog, extVars>>
    /\ LET j == tasks[t].job
       IN \E authOk \in BOOLEAN, o1 \in PostOutcomes, r1 \in {FALSE, mock} :
            IF ~authOk
            THEN /\ SetJobOutcome(j, FailAndNotify(mock, CogState, jobs, cbLog[j], j, r1, "init_failed"))
                 /\ tasks' = [tasks EXCEPT ![t] = Idle]
                 /\ UNCHANGED authenticated
            ELSE LET p == PostFirst(TRUE, o1)
                 IN /\ authenticated' = TRUE
                    /\ IF p.done
                       THEN /\ SetJobOutcome(j, FinishJob(mock, CogState, jobs, cbLog[j], j, p.res, r1))
                            /\ tasks' = [tasks EXCEPT ![t] = Idle]
                       ELSE /\ tasks' = [tasks EXCEPT ![t] = JobTask(j, "reauth", p.trace)]
                            /\ UNCHANGED <<jobs, cogVars, cbLog, execState>>

\* post_announcement resumes from `await self._authenticate()` inside a job
JobReauthDone(t, mock) ==
    /\ tasks[t].kind = "job" /\ tasks[t].pc = "reauth"
    /\ UNCHANGED <<now, timers, nextId, cancelled, restoreCalls, store, storeLog, extVars>>
    /\ LET j == tasks[t].job
       IN \E authOk \in BOOLEAN, o2 \in PostOutcomes, r1 \in {FALSE, mock} :
            LET p == PostRetry(tasks[t].trace, authOk, o2)
            IN /\ authenticated' = (authenticated \/ authOk)
               /\ SetJobOutcome(j, FinishJob(mock, CogState, jobs, cbLog[j], j, p.res, r1))
               /\ tasks' = [tasks EXCEPT ![t] = Idle]

\* ------------------------------------------------ AnnouncementCog handlers
\* AIProcessor.process_announcement: "timestamp" and
\* "announcement_timestamp" are the same extracted instant; a successful
\* extraction always names the event's start, and its end is the one
\* extracted or one hour after the start
process_announcement(ok, ann) ==
    IF ok
    THEN [success |-> TRUE, timestamp |-> ann, announcement_timestamp |-> ann,
          event_start_timestamp |-> ann + EVENT_DELAY,
          event_end_timestamp |-> ann + EVENT_DELAY + EVENT_LENGTH]
    ELSE [success |-> FALSE, timestamp |-> 0, announcement_timestamp |-> 0,
          event_start_timestamp |-> 0, event_end_timestamp |-> 0]

\* schedule_announcement's keyword arguments event_start_timestamp and
\* event_end_timestamp, stored in the record
job_event_times(rec, event_start_timestamp, event_end_timestamp) ==
    rec @@ [event_start_timestamp |-> event_start_timestamp,
            event_end_timestamp |-> event_end_timestamp]

\* job.get(key): None for a record written before the key existed
job_get(rec, key) == IF key \in DOMAIN rec THEN rec[key] ELSE None

\* a staleness test that also rejects a time exactly one hour old
TooOldInclusive(result, current_timestamp) ==
    result.timestamp <= current_timestamp - STALE_LIMIT

\* the staleness test of _process_approved_announcement
TooOld(result, current_timestamp) ==
    result.timestamp < current_timestamp - STALE_LIMIT

\* on_message -> _handle_announcement_request for a mention in message m
NewRequest(m) ==
    /\ m \notin queued_announcements
    /\ m \notin Range(history)
    /\ SetCog(save_state([CogState EXCEPT !.p = PutKey(@, m, None)], jobs))
    /\ UNCHANGED <<now, authenticated, schedVars, tasks, ghostVars, extVars>>

\* on_raw_reaction_add, approval emoji by an admin on request m: after
\* fetch_member the request must be pending; the handler then awaits
\* fetch_message
ApprovalStart(m) ==
    /\ m \in DOMAIN pending_requests
    /\ \E t \in TaskIds :
          /\ Slot(t)
          /\ tasks' = [tasks EXCEPT ![t] = CogTask("approve", "fetch_message", m)]
    /\ UNCHANGED <<now, authenticated, schedVars, cogVars, ghostVars, extVars>>

\* the queued / history checks, then _process_approved_announcement sends
\* the "processing" reply and awaits the NL extraction
ApprovalCheck(t) ==
    /\ tasks[t].kind = "approve" /\ tasks[t].pc = "fetch_message"
    /\ IF tasks[t].msg \in queued_announcements \/ tasks[t].msg \in Range(history)
       THEN tasks' = [tasks EXCEPT ![t] = Idle]
       ELSE tasks' = [tasks EXCEPT ![t] = [@ EXCEPT !.pc = "extract",
                                                    !.reply = ReplyOf(tasks[t].msg)]]
    /\ UNCHANGED <<now, authenticated, schedVars, cogVars, ghostVars, extVars>>

\* the extraction returns: an error is reported, a stale time is warned
\* about, anything else is scheduled and confirmed; each ends in an await
\* of processing_msg.edit
ApprovalGate(t, ok, ann) ==
    /\ tasks[t].kind = "approve" /\ tasks[t].pc = "extract"
    /\ LET result == process_announcement(ok, ann)
           current_timestamp == now
       IN IF ~result.success
          THEN /\ tasks' = [tasks EXCEPT ![t] = [@ EXCEPT !.pc = "error"]]
               /\ UNCHANGED schedVars
          ELSE IF TooOld(result, current_timestamp)
          THEN /\ tasks' = [tasks EXCEPT ![t] = [@ EXCEPT !.pc = "warning",
                                 !.timestamp = result.timestamp,
                                 !.due = result.announcement_timestamp,
                                 !.at = current_timestamp]]
               /\ UNCHANGED schedVars
          ELSE /\ nextId <= MaxJobs
               /\ LET r == schedule_announcement(jobs, timers, nextId,
                                                 result.announcement_timestamp,
                                                 tasks[t].msg)
                  IN /\ jobs' = PutJob(r.jobs,
                                       job_event_times(JobAt(r.jobs, nextId),
                                           result.event_start_timestamp,
                                           result.event_end_timestamp))
                     /\ timers' = r.timers
                     /\ nextId' = nextId + 1
               /\ tasks' = [tasks EXCEPT ![t] = [@ EXCEPT !.pc = "confirmation",
                                 !.job = nextId,
                                 !.timestamp = result.timestamp,
                                 !.due = result.announcement_timestamp,
                                 !.at = current_timestamp]]
    /\ UNCHANGED <<now, authenticated, cogVars, ghostVars, extVars>>

\* the error or the warning is shown: the handler returns
ApprovalRejected(t) ==
    /\ tasks[t].kind = "approve" /\ tasks[t].pc \in {"error", "warning"}
    /\ tasks' = [tasks EXCEPT ![t] = Idle]
    /\ UNCHANGED <<now, authenticated, schedVars, cogVars, ghostVars, extVars>>

\* the confirmation embed is shown: record the reply id and queue the
\* request, then await the two add_reaction calls
ApprovalQueue(t) ==
    /\ tasks[t].kind = "approve" /\ tasks[t].pc = "confirmation"
    /\ pending_requests' = PutKey(pending_requests, tasks[t].msg, tasks[t].reply)
    /\ queued_announcements' = queued_announcements \cup {tasks[t].msg}
    /\ tasks' = [tasks EXCEPT ![t] = [@ EXCEPT !.pc = "reactions"]]
    /\ UNCHANGED <<now, authenticated, schedVars, history, calendar_events,
                   persisted, ghostVars, extVars>>

\* the reactions are added: save_state ends the approval
ApprovalSave(t) ==
    /\ tasks[t].kind = "approve" /\ tasks[t].pc = "reactions"
    /\ SetCog(save_state(CogState, jobs))
    /\ tasks' = [tasks EXCEPT ![t] = Idle]
    /\ UNCHANGED <<now, authenticated, schedVars, ghostVars, extVars>>

\* on_raw_reaction_add, fast-forward emoji by an authorized user on the
\* bot reply recorded for request m: the request is looked up through
\* pending_requests, then fetch_message is awaited
FastForwardStart(m) ==
    /\ RequestOfReply(pending_requests, ReplyOf(m)) # None
    /\ \E t \in TaskIds :
          /\ Slot(t)
          /\ tasks' = [tasks EXCEPT ![t] =
                CogTask("forward", "fetch_request",
                        RequestOfReply(pending_requests, ReplyOf(m)))]
    /\ UNCHANGED <<now, authenticated, schedVars, cogVars, ghostVars, extVars>>

\* _process_immediate_post: look the job up, then await
\* channel.fetch_message(processing_msg_id)
FastForwardLookup(t) ==
    /\ tasks[t].kind = "forward" /\ tasks[t].pc = "fetch_request"
    /\ IF HasJobFor(jobs, tasks[t].msg)
       THEN tasks' = [tasks EXCEPT ![t] = [@ EXCEPT !.pc = "fetch_processing",
                         !.job = get_job_by_message_id(jobs, tasks[t].msg).id]]
       ELSE tasks' = [tasks EXCEPT ![t] = Idle]
    /\ UNCHANGED <<now, authenticated, schedVars, cogVars, ghostVars, extVars>>

\* what _process_immediate_post does with the post's result p: on success
\* it awaits processing_msg.edit, on failure channel.send
ForwardAfterPost(t, p) ==
    tasks' = [tasks EXCEPT ![t] = [@ EXCEPT !.trace = p.trace, !.res = p.res,
                 !.pc = IF p.res.success THEN "edit" ELSE "failure"]]

\* cancel_job (result ignored) and the immediate post
FastForwardPost(t) ==
    /\ tasks[t].kind = "forward" /\ tasks[t].pc = "fetch_processing"
    /\ LET c == cancel_job(jobs, timers, tasks[t].job)
       IN /\ jobs' = c.jobs
          /\ timers' = c.timers
          /\ cancelled' = IF c.result
                          THEN [cancelled EXCEPT ![tasks[t].job] = @ + 1]
                          ELSE cancelled
    /\ \E o1 \in PostOutcomes :
          LET p == PostFirst(authenticated, o1)
          IN IF p.done
             THEN ForwardAfterPost(t, p)
             ELSE tasks' = [tasks EXCEPT ![t] = [@ EXCEPT !.pc = "reauth", !.trace = p.trace]]
    /\ UNCHANGED <<now, authenticated, nextId, cogVars, execState, cbLog, restoreCalls, store, storeLog, extVars>>

\* post_announcement resumes from _authenticate inside a fast-forward
FastForwardReauthDone(t) ==
    /\ tasks[t].kind = "forward" /\ tasks[t].pc = "reauth"
    /\ \E authOk \in BOOLEAN, o2 \in PostOutcomes :
          /\ authenticated' = (authenticated \/ authOk)
          /\ ForwardAfterPost(t, PostRetry(tasks[t].trace, authOk, o2))
    /\ UNCHANGED <<now, schedVars, cogVars, ghostVars, extVars>>

\* the failure notice is sent: the handler returns
FastForwardFailed(t) ==
    /\ tasks[t].kind = "forward" /\ tasks[t].pc = "failure"
    /\ tasks' = [tasks EXCEPT ![t] = Idle]
    /\ UNCHANGED <<now, authenticated, schedVars, cogVars, ghostVars, extVars>>

\* the embed is edited: leave the queue, enter history, save_state; the
\* entry of pending_requests is kept
FastForwardDone(t) ==
    /\ tasks[t].kind = "forward" /\ tasks[t].pc = "edit"
    /\ SetCog(save_state([CogState EXCEPT !.q = @ \ {tasks[t].msg},
                                          !.h = HistoryAdd(@, tasks[t].msg)], jobs))
    /\ tasks' = [tasks EXCEPT ![t] = Idle]
    /\ UNCHANGED <<now, authenticated, schedVars, ghostVars, extVars>>

\* on_raw_reaction_remove, approval emoji on a queued request m: awaits
\* fetch_message
DisapprovalStart(m) ==
    /\ m \in queued_announcements
    /\ \E t \in TaskIds :
          /\ Slot(t)
          /\ tasks' = [tasks EXCEPT ![t] = CogTask("disapprove", "fetch_message", m)]
    /\ UNCHANGED <<now, authenticated, schedVars, cogVars, ghostVars, extVars>>

\* the tail of the disapproval from program point pc on, up to the next
\* await or to the end: delete the bot reply (await), delete the calendar
\* event (the call suspends when it has to re-authenticate; then
\* `del self.calendar_events[...]`, which raises KeyError out of the handler
\* when the key is gone, and await channel.send), clean up and save_state
DisapprovalTail(cs, js, m, pc, suspends) ==
    IF pc = "cancelled" /\ m \in DOMAIN cs.p /\ cs.p[m] # None
    THEN [cs |-> cs, pc |-> "delete_reply"]
    ELSE IF pc \in {"cancelled", "delete_reply"} /\ m \in DOMAIN cs.c
    THEN IF suspends
         THEN [cs |-> cs, pc |-> "delete_event"]
         ELSE [cs |-> [cs EXCEPT !.c = DropKey(@, m)], pc |-> "calendar_deleted"]
    ELSE IF pc = "delete_event"
    THEN IF m \in DOMAIN cs.c
         THEN [cs |-> [cs EXCEPT !.c = DropKey(@, m)], pc |-> "calendar_deleted"]
         ELSE [cs |-> cs, pc |-> "raised"]
    ELSE [cs |-> save_state([cs EXCEPT !.q = @ \ {m}, !.p = PutKey(@, m, None)], js),
          pc |-> "-"]

\* the handler is over: it returned or an exception left it
Ended(pc) == pc \in {"-", "raised"}

\* no approval reaction is left: cancel_job_by_message_id, and when it
\* returned True the tail above
DisapprovalCancel(t) ==
    /\ tasks[t].kind = "disapprove" /\ tasks[t].pc = "fetch_message"
    /\ LET c == cancel_job_by_message_id(jobs, timers, tasks[t].msg)
       IN /\ jobs' = c.jobs
          /\ timers' = c.timers
          /\ IF c.result
             THEN \E o1 \in PostOutcomes :
                  LET d == DisapprovalTail(CogState, c.jobs, tasks[t].msg, "cancelled",
                                           ~DeleteFirst(authenticated, o1).done)
                  IN /\ cancelled' = [cancelled EXCEPT
                                        ![get_job_by_message_id(jobs, tasks[t].msg).id] = @ + 1]
                     /\ SetCog(d.cs)
                     /\ tasks' = [tasks EXCEPT ![t] =
                                    IF Ended(d.pc) THEN Idle ELSE [@ EXCEPT !.pc = d.pc]]
             ELSE /\ tasks' = [tasks EXCEPT ![t] = Idle]
                  /\ UNCHANGED <<cogVars, cancelled>>
    /\ UNCHANGED <<now, authenticated, nextId, execState, cbLog, restoreCalls, store, storeLog, extVars>>

\* the disapproval resumes after deleting the reply, after the
\* re-authentication inside delete_group_calendar_event (authOk), or after
\* the notice that the calendar event is deleted
DisapprovalResume(t) ==
    /\ tasks[t].kind = "disapprove"
    /\ tasks[t].pc \in {"delete_reply", "delete_event", "calendar_deleted"}
    /\ \E o1 \in PostOutcomes, authOk \in BOOLEAN :
          LET d == DisapprovalTail(CogState, jobs, tasks[t].msg, tasks[t].pc,
                                   ~DeleteFirst(authenticated, o1).done)
          IN /\ SetCog(d.cs)
             /\ tasks' = [tasks EXCEPT ![t] =
                            IF Ended(d.pc) THEN Idle ELSE [@ EXCEPT !.pc = d.pc]]
             /\ authenticated' = IF tasks[t].pc = "delete_event"
                                 THEN (authenticated \/ authOk)
                                 ELSE authenticated
    /\ UNCHANGED <<now, schedVars, ghostVars, extVars>>

\* AdminCog.cancel_job: the cancel command with a job id that is known
\* and still has its timer (any other id changes nothing)
AdminCancel(j) ==
    /\ CancelResult(jobs, timers, j)
    /\ LET c == cancel_job(jobs, timers, j)
       IN /\ jobs' = c.jobs
          /\ timers' = c.timers
    /\ cancelled' = [cancelled EXCEPT ![j] = @ + 1]
    /\ UNCHANGED <<now, authenticated, nextId, cogVars, tasks,
                   execState, cbLog, restoreCalls, store, storeLog, extVars>>

\* load_state that puts the skipped snapshots back into the job table
load_state_keeps_skipped(s, t) ==
    LET r == restore_jobs(<<>>, <<>>, load_data(s, "jobs", <<>>), t)
        listed == list_jobs(r.jobs, r.timers)
    IN [jobs |-> r.jobs \o r.skipped, timers |-> r.timers,
        restored_count |-> r.count, skipped_jobs |-> r.skipped,
        cs |-> [p |-> load_data(s, "pending", <<>>),
                h |-> load_data(s, "history", <<>>),
                c |-> load_data(s, "calendar", <<>>),
                q |-> {listed[i].message_id : i \in DOMAIN listed}, s |-> s]]

\* AnnouncementCog.load_state in a new process, followed by the save_state
\* of on_ready: memory is rebuilt from what was persisted
load_state(s, t) ==
    LET r == restore_jobs(<<>>, <<>>, load_data(s, "jobs", <<>>), t)
        listed == list_jobs(r.jobs, r.timers)
    IN [jobs |-> r.jobs, timers |-> r.timers,
        restored_count |-> r.count, skipped_jobs |-> r.skipped,
        cs |-> [p |-> load_data(s, "pending", <<>>),
                h |-> load_data(s, "history", <<>>),
                c |-> load_data(s, "calendar", <<>>),
                q |-> {listed[i].message_id : i \in DOMAIN listed}, s |-> s]]

\* the process is restarted: every coroutine is gone, the scheduler and
\* the cog are constructed anew and on_ready runs
Restart ==
    /\ LET l == load_state(persisted, now)
       IN /\ jobs' = l.jobs
          /\ timers' = l.timers
          /\ SetCog(save_state(l.cs, l.jobs))
          /\ execState' = [j \in JobIdSet |->
                             IF j \in JobIdsOf(l.skipped_jobs) THEN "skipped"
                             ELSE "none"]
    /\ tasks' = [t \in TaskIds |-> Idle]
    /\ authenticated' = FALSE
    /\ cbLog' = [j \in JobIdSet |-> <<>>]
    /\ cancelled' = [j \in JobIdSet |-> 0]
    /\ UNCHANGED <<now, nextId, restoreCalls, store, storeLog, extVars>>

Next ==
    \/ Advance
    \/ Login
    \/ \E m \in Msgs : NewRequest(m)
    \/ \E m \in Msgs : ApprovalStart(m)
    \/ \E t \in TaskIds : ApprovalCheck(t)
    \/ \E t \in TaskIds, ok \in BOOLEAN, ann \in TimeSet : ApprovalGate(t, ok, ann)
    \/ \E t \in TaskIds : ApprovalRejected(t)
    \/ \E t \in TaskIds : ApprovalQueue(t)
    \/ \E t \in TaskIds : ApprovalSave(t)
    \/ \E m \in Msgs : FastForwardStart(m)
    \/ \E t \in TaskIds : FastForwardLookup(t)
    \/ \E t \in TaskIds : FastForwardPost(t)
    \/ \E t \in TaskIds : FastForwardReauthDone(t)
    \/ \E t \in TaskIds : FastForwardFailed(t)
    \/ \E t \in TaskIds : FastForwardDone(t)
    \/ \E m \in Msgs : DisapprovalStart(m)
    \/ \E t \in TaskIds : DisapprovalCancel(t)
    \/ \E t \in TaskIds : DisapprovalResume(t)
    \/ \E j \in JobIdSet : AdminCancel(j)
    \/ \E j \in JobIdSet : Fire(j, FALSE)
    \/ \E t \in TaskIds : JobInitialized(t, FALSE)
    \/ \E t \in TaskIds : JobReauthDone(t, FALSE)
    \/ Restart

Spec == Init /\ [][Next]_vars

\* ------------------------------------------------- the Scheduler on its own
\* The Scheduler driven through its public methods by an arbitrary caller,
\* with a completion callback that may raise (the mock of the actions).

\* a direct call of schedule_announcement
ScheduleCall(timestamp, m) ==
    /\ nextId <= MaxJobs
    /\ LET r == schedule_announcement(jobs, timers, nextId, timestamp, m)
       IN /\ jobs' = r.jobs
          /\ timers' = r.timers
          /\ nextId' = nextId + 1
    /\ UNCHANGED <<now, authenticated, cogVars, tasks, ghostVars, extVars>>

\* a call of cancel_job with any id, known or not
CancelCall(j) ==
    /\ LET c == cancel_job(jobs, timers, j)
       IN /\ jobs' = c.jobs
          /\ timers' = c.timers
          /\ cancelled' = IF c.result THEN [cancelled EXCEPT ![j] = @ + 1]
                          ELSE cancelled
    /\ UNCHANGED <<now, authenticated, nextId, cogVars, tasks,
                   execState, cbLog, restoreCalls, store, storeLog, extVars>>

\* a call of cancel_job_by_message_id
CancelByRequestCall(m) ==
    /\ LET c == cancel_job_by_message_id(jobs, timers, m)
       IN /\ jobs' = c.jobs
          /\ timers' = c.timers
          /\ cancelled' = IF c.result
                          THEN [cancelled EXCEPT
                                  ![get_job_by_message_id(jobs, m).id] = @ + 1]
                          ELSE cancelled
    /\ UNCHANGED <<now, authenticated, nextId, cogVars, tasks,
                   execState, cbLog, restoreCalls, store, storeLog, extVars>>

\* the snapshots get_jobs_data can have written, and lists of them
Snapshots == [id : JobIdSet, message_id : Msgs, timestamp : TimeSet,
              status : {"pending"}]
SnapshotLists == UNION {[1..n -> Snapshots] : n \in 0..MaxRestoreLen}

\* ids handed out by uuid4 never collide with an id seen in a snapshot
FreshAfter(id, list) ==
    IF \E i \in DOMAIN list : list[i].id >= id
    THEN 1 + CHOOSE k \in JobIdSet :
                /\ \E i \in DOMAIN list : list[i].id = k
                /\ \A i \in DOMAIN list : list[i].id <= k
    ELSE id

\* a call of restore_jobs with any list, on a scheduler in any state
RestoreCall(list) ==
    /\ restoreCalls < MaxRestores
    /\ LET r == restore_jobs(jobs, timers, list, now)
       IN /\ jobs' = r.jobs
          /\ timers' = r.timers
          /\ restoreCalls' = restoreCalls + 1
    /\ nextId' = FreshAfter(nextId, list)
    /\ UNCHANGED <<now, authenticated, cogVars, tasks, execState, cbLog, cancelled,
                   store, storeLog, extVars>>

NextSched ==
    \/ Advance
    \/ Login
    \/ \E timestamp \in TimeSet, m \in Msgs : ScheduleCall(timestamp, m)
    \/ \E j \in JobIdSet : CancelCall(j)
    \/ \E m \in Msgs : CancelByRequestCall(m)
    \/ \E list \in SnapshotLists : RestoreCall(list)
    \/ \E j \in JobIdSet : Fire(j, TRUE)
    \/ \E t \in TaskIds : JobInitialized(t, TRUE)
    \/ \E t \in TaskIds : JobReauthDone(t, TRUE)

SpecSched == Init /\ [][NextSched]_vars

\* ------------------------------------- the program while nobody cancels
\* The process keeps running and no Job is cancelled (no disapproval, no
\* fast-forward, no admin cancel).  Requests announce an instant after the
\* start of the run, the VRChat session is opened by the first Job that
\* needs it, the clock keeps moving, APScheduler runs every timer that is
\* due, and every await of a running coroutine returns.
NextLive ==
    \/ Advance
    \/ \E m \in Msgs : NewRequest(m)
    \/ \E m \in Msgs : ApprovalStart(m)
    \/ \E t \in TaskIds : ApprovalCheck(t)
    \/ \E t \in TaskIds, ok \in BOOLEAN, ann \in TimeSet \ {0} : ApprovalGate(t, ok, ann)
    \/ \E t \in TaskIds : ApprovalRejected(t)
    \/ \E t \in TaskIds : ApprovalQueue(t)
    \/ \E t \in TaskIds : ApprovalSave(t)
    \/ \E j \in JobIdSet : Fire(j, FALSE)
    \/ \E t \in TaskIds : JobInitialized(t, FALSE)
    \/ \E t \in TaskIds : JobReauthDone(t, FALSE)

\* the next step of the coroutine in frame t, whatever it is waiting for
Resume(t) ==
    \/ JobInitialized(t, FALSE)
    \/ JobReauthDone(t, FALSE)
    \/ ApprovalCheck(t)
    \/ \E ok \in BOOLEAN, ann \in TimeSet \ {0} : ApprovalGate(t, ok, ann)
    \/ ApprovalRejected(t)
    \/ ApprovalQueue(t)
    \/ ApprovalSave(t)

Fairness ==
    /\ WF_vars(Advance)
    /\ \A j \in JobIdSet : SF_vars(Fire(j, FALSE))
    /\ \A t \in TaskIds : WF_vars(Resume(t))

SpecLive == Init /\ [][NextLive]_vars /\ Fairness

\* ------------------------------------------- requests that are turned down
\* _handle_announcement_request that saves the state before it answers a
\* request that is already booked
DuplicateRequestSaves(m) ==
    /\ m \in queued_announcements \/ m \in Range(history)
    /\ \E t \in TaskIds :
          /\ Slot(t)
          /\ tasks' = [tasks EXCEPT ![t] = CogTask("request", "already_booked", m)]
    /\ SetCog(save_state(CogState, jobs))
    /\ UNCHANGED <<now, authenticated, schedVars, ghostVars, extVars>>

\* on_message -> _handle_announcement_request for a mention in a message
\* that is queued or in history: it awaits the "already booked" reply
DuplicateRequest(m) ==
    /\ m \in queued_announcements \/ m \in Range(history)
    /\ \E t \in TaskIds :
          /\ Slot(t)
          /\ tasks' = [tasks EXCEPT ![t] = CogTask("request", "already_booked", m)]
    /\ UNCHANGED <<now, authenticated, schedVars, cogVars, ghostVars, extVars>>

\* the reply is sent: the handler returns
DuplicateReplied(t) ==
    /\ tasks[t].kind = "request" /\ tasks[t].pc = "already_booked"
    /\ tasks' = [tasks EXCEPT ![t] = Idle]
    /\ UNCHANGED <<now, authenticated, schedVars, cogVars, ghostVars, extVars>>

\* submissions, approvals and the timer, with no cancellation
NextIntake ==
    \/ NextLive
    \/ Login
    \/ \E m \in Msgs : DuplicateRequest(m)
    \/ \E t \in TaskIds : DuplicateReplied(t)

SpecIntake == Init /\ [][NextIntake]_vars

\* ----------------------------------------------- the VRChatAPI on its own
\* a caller awaits one of the wrapped calls
ApiCall(t, op, o1) ==
    /\ Slot(t)
    /\ LET p == ApiFirst(op, authenticated, o1)
       IN tasks' = [tasks EXCEPT ![t] =
              [Idle EXCEPT !.kind = op,
                           !.pc = IF p.done THEN "returned" ELSE "reauth",
                           !.res = p.res, !.trace = p.trace]]
    /\ UNCHANGED <<now, authenticated, schedVars, cogVars, ghostVars, extVars>>

\* the wrapped call resumes from `await self._authenticate()`
ApiReauthDone(t, authOk, o2) ==
    /\ tasks[t].kind \in ApiOps /\ tasks[t].pc = "reauth"
    /\ LET p == ApiRetry(tasks[t].kind, tasks[t].trace, authOk, o2)
       IN tasks' = [tasks EXCEPT ![t].pc = "returned", ![t].res = p.res,
                                 ![t].trace = p.trace]
    /\ authenticated' = (authenticated \/ authOk)
    /\ UNCHANGED <<now, schedVars, cogVars, ghostVars, extVars>>

\* the caller takes the result
ApiReturn(t) ==
    /\ tasks[t].kind \in ApiOps /\ tasks[t].pc = "returned"
    /\ tasks' = [tasks EXCEPT ![t] = Idle]
    /\ UNCHANGED <<now, authenticated, schedVars, cogVars, ghostVars, extVars>>

\* VRChatAPI.close
Close ==
    /\ authenticated
    /\ authenticated' = FALSE
    /\ UNCHANGED <<now, schedVars, cogVars, tasks, ghostVars, extVars>>

NextApi ==
    \/ Login
    \/ Close
    \/ \E t \in TaskIds, op \in ApiOps, o1 \in PostOutcomes : ApiCall(t, op, o1)
    \/ \E t \in TaskIds, authOk \in BOOLEAN, o2 \in PostOutcomes : ApiReauthDone(t, authOk, o2)
    \/ \E t \in TaskIds : ApiReturn(t)

SpecApi == Init /\ [][NextApi]_vars

\* --------------------------------------------- the titles of a Job record
Titles == {"title 1", "title 2"}
EventTitles == {"event title"}
\* event_title=None, the default of schedule_announcement
NoTitle == "None"

\* schedule_announcement that stores the event_title argument as given
job_titles_as_given(rec, title, event_title) ==
    rec @@ [title |-> title, event_title |-> event_title]

\* the title fields of the record schedule_announcement stores
job_titles(rec, title, event_title) ==
    rec @@ [title |-> title,
            event_title |-> IF event_title = NoTitle THEN title ELSE event_title]

\* the record restore_jobs stores for snapshot job_data
restored_record(job_data) ==
    IF "event_title" \in DOMAIN job_data
    THEN job_data
    ELSE job_data @@ [event_title |-> job_data.title]

\* snapshots written by this and by older versions of the program
TitledSnapshots ==
    [id : JobIdSet, message_id : Msgs, timestamp : TimeSet,
     status : {"pending"}, title : Titles]
    \cup [id : JobIdSet, message_id : Msgs, timestamp : TimeSet,
          status : {"pending"}, title : Titles,
          event_title : Titles \cup EventTitles]
TitledLists == UNION {[1..n -> TitledSnapshots] : n \in 0..MaxTitledLen}

\* a call of schedule_announcement with a title and any event_title
ScheduleTitled(timestamp, title, m, event_title) ==
    /\ nextId <= MaxJobs
    /\ LET r == schedule_announcement(jobs, timers, nextId, timestamp, m)
       IN /\ jobs' = PutJob(r.jobs, job_titles(JobAt(r.jobs, nextId),
                                               title, event_title))
          /\ timers' = r.timers
          /\ nextId' = nextId + 1
    /\ UNCHANGED <<now, authenticated, cogVars, tasks, ghostVars, extVars>>

\* a call of restore_jobs with snapshots of either schema
RestoreTitled(list) ==
    /\ restoreCalls < MaxRestores
    /\ LET r == restore_jobs(jobs, timers,
                             [i \in DOMAIN list |-> restored_record(list[i])], now)
       IN /\ jobs' = r.jobs
          /\ timers' = r.timers
          /\ restoreCalls' = restoreCalls + 1
    /\ nextId' = FreshAfter(nextId, list)
    /\ UNCHANGED <<now, authenticated, cogVars, tasks, execState, cbLog, cancelled,
                   store, storeLog, extVars>>

NextTitle ==
    \/ Advance
    \/ \E timestamp \in TimeSet, title \in Titles, m \in Msgs,
          event_title \in EventTitles \cup {NoTitle} :
             ScheduleTitled(timestamp, title, m, event_title)
    \/ \E list \in TitledLists : RestoreTitled(list)
    \/ \E j \in JobIdSet : CancelCall(j)

SpecTitle == Init /\ [][NextTitle]_vars

\* ------------------------------------------ the AnnouncementState on its own
\* An AnnouncementState of any capacity driven through its transitions by
\* an arbitrary caller.
InitState ==
    /\ InitProgram
    /\ \E cap \in 1..MaxCap : store = NewState(cap)
    /\ storeLog = NoCalls

\* record a call: its name, argument, returned value and the state before
Called(op, m, ret) ==
    storeLog' = [n |-> storeLog.n + 1,
                 completed |-> IF op = "mark_completed"
                               THEN Append(storeLog.completed, m)
                               ELSE storeLog.completed,
                 op |-> op, arg |-> m, ret |-> ret, before |-> store]

StateUnchanged ==
    UNCHANGED <<now, authenticated, schedVars, cogVars, tasks,
                execState, cbLog, cancelled, restoreCalls, extVars>>

AddPending(m) ==
    /\ storeLog.n < MaxStoreOps
    /\ store' = add_pending(store, m)
    /\ Called("add_pending", m, None)
    /\ StateUnchanged

MarkQueued(m) ==
    /\ storeLog.n < MaxStoreOps
    /\ store' = mark_queued(store, m, ReplyOf(m))
    /\ Called("mark_queued", m, None)
    /\ StateUnchanged

MarkCompleted(m) ==
    /\ storeLog.n < MaxStoreOps
    /\ store' = mark_completed(store, m)
    /\ Called("mark_completed", m, None)
    /\ StateUnchanged

Cancel(m) ==
    /\ storeLog.n < MaxStoreOps
    /\ LET r == cancel(store, m)
       IN store' = r.state /\ Called("cancel", m, r.ret)
    /\ StateUnchanged

SetCalendarEvent(m, event_id) ==
    /\ storeLog.n < MaxStoreOps
    /\ store' = set_calendar_event(store, m, event_id)
    /\ Called("set_calendar_event", m, None)
    /\ StateUnchanged

RemoveCalendarEvent(m) ==
    /\ storeLog.n < MaxStoreOps
    /\ LET r == remove_calendar_event(store, m)
       IN store' = r.state /\ Called("remove_calendar_event", m, r.ret)
    /\ StateUnchanged

NextState ==
    \/ \E m \in StoreIds : AddPending(m)
    \/ \E m \in StoreIds : MarkQueued(m)
    \/ \E m \in StoreIds : MarkCompleted(m)
    \/ \E m \in StoreIds : Cancel(m)
    \/ \E m \in StoreIds, event_id \in CalIds : SetCalendarEvent(m, event_id)
    \/ \E m \in StoreIds : RemoveCalendarEvent(m)

SpecState == InitState /\ [][NextState]_vars

\* the caller of add_pending has checked is_queued and is_in_history
\* (the duplicate guard of the orchestrator); the other transitions are
\* called on any request id
GuardedAddPending(m) ==
    /\ m \notin store.queued_announcements
    /\ m \notin Range(store.history)
    /\ AddPending(m)

NextGuarded ==
    \/ \E m \in StoreIds : GuardedAddPending(m)
    \/ \E m \in StoreIds : MarkQueued(m)
    \/ \E m \in StoreIds : MarkCompleted(m)
    \/ \E m \in StoreIds : Cancel(m)

SpecGuarded == InitState /\ [][NextGuarded]_vars

\* ------------------------------ the AnnouncementState and its persistence
\* as InitState, with a Firestore that holds no document yet
InitStore ==
    /\ now = 0
    /\ authenticated = FALSE
    /\ jobs = <<>>
    /\ timers = <<>>
    /\ nextId = 1
    /\ pending_requests = <<>>
    /\ queued_announcements = {}
    /\ history = <<>>
    /\ calendar_events = <<>>
    /\ persisted = <<>>
    /\ tasks = [t \in TaskIds |-> Idle]
    /\ InitGhost
    /\ InitExt
    /\ \E cap \in 1..MaxCap : store = NewState(cap)
    /\ storeLog = NoCalls

\* await state.save(persistence)
SaveCall ==
    /\ storeLog.n < MaxStoreOps
    /\ persisted' = save(store, persisted)
    /\ Called("save", None, None)
    /\ UNCHANGED <<now, authenticated, schedVars, pending_requests,
                   queued_announcements, history, calendar_events, tasks,
                   execState, cbLog, cancelled, restoreCalls, store, extVars>>

\* a fresh AnnouncementState takes the place of the object and loads
LoadCall ==
    /\ storeLog.n < MaxStoreOps
    /\ store' = load(NewState(store.max_history), persisted)
    /\ Called("load", None, None)
    /\ StateUnchanged

NextStore ==
    \/ NextState
    \/ SaveCall
    \/ LoadCall

SpecStore == InitStore /\ [][NextStore]_vars

\* ------------------------------------------ the calendar events of the cog
\* the calendar emoji is added to (creation) or taken from (removal) the
\* bot reply of a request, while approvals and disapprovals go on
\* Python's `not x` for a timestamp or None
Falsy(x) == x = None \/ x = 0

\* the id the venue platform gives to the next calendar event of request m
NextEventId(m) == created[m] + 1

\* on_raw_reaction_add, calendar emoji on the bot reply recorded for
\* request m: no event may be recorded yet; fetch_message is awaited
CalendarStart(m) ==
    /\ RequestOfReply(pending_requests, ReplyOf(m)) # None
    /\ RequestOfReply(pending_requests, ReplyOf(m)) \notin DOMAIN calendar_events
    /\ \E t \in TaskIds :
          /\ Slot(t)
          /\ tasks' = [tasks EXCEPT ![t] =
                CogTask("calendar", "fetch_message",
                        RequestOfReply(pending_requests, ReplyOf(m)))]
    /\ UNCHANGED <<now, authenticated, schedVars, cogVars, ghostVars, extVars>>

\* what _process_calendar_event_creation does with the result p of
\* create_group_calendar_event: on success the event id is recorded and
\* save_state is called; either way channel.send is awaited
CalendarAfterCreate(t, p) ==
    LET m == tasks[t].msg
    IN /\ p.res.success => created[m] < MaxEvents
       /\ IF p.res.success
          THEN /\ created' = [created EXCEPT ![m] = @ + 1]
               /\ SetCog(save_state([CogState EXCEPT
                                       !.c = PutKey(@, m, NextEventId(m))], jobs))
          ELSE UNCHANGED <<cogVars, created>>
       /\ tasks' = [tasks EXCEPT ![t] = [@ EXCEPT !.trace = p.trace,
                                                  !.res = p.res, !.pc = "notice"]]

\* _process_calendar_event_creation: the Job is looked up, its event times
\* are read, and create_group_calendar_event is called
CalendarCreate(t) ==
    /\ tasks[t].kind = "calendar" /\ tasks[t].pc = "fetch_message"
    /\ IF ~HasJobFor(jobs, tasks[t].msg)
       THEN /\ tasks' = [tasks EXCEPT ![t] = Idle]
            /\ UNCHANGED <<cogVars, created>>
       ELSE LET job == get_job_by_message_id(jobs, tasks[t].msg)
                start_at == job_get(job, "event_start_timestamp")
                end_at == job_get(job, "event_end_timestamp")
            IN IF Falsy(start_at) \/ Falsy(end_at)
               THEN /\ tasks' = [tasks EXCEPT ![t] = [@ EXCEPT !.pc = "notice"]]
                    /\ UNCHANGED <<cogVars, created>>
               ELSE \E o1 \in PostOutcomes :
                       LET p == CreateFirst(authenticated, o1)
                       IN IF p.done
                          THEN CalendarAfterCreate(t, p)
                          ELSE /\ tasks' = [tasks EXCEPT ![t] =
                                     [@ EXCEPT !.trace = p.trace, !.pc = "reauth"]]
                               /\ UNCHANGED <<cogVars, created>>
    /\ UNCHANGED <<now, authenticated, schedVars, ghostVars,
                   login, otp_requests, otpCalls>>

\* create_group_calendar_event resumes after _authenticate
CalendarReauthDone(t) ==
    /\ tasks[t].kind = "calendar" /\ tasks[t].pc = "reauth"
    /\ \E authOk \in BOOLEAN, o2 \in PostOutcomes :
          /\ authenticated' = (authenticated \/ authOk)
          /\ CalendarAfterCreate(t, CreateRetry(tasks[t].trace, authOk, o2))
    /\ UNCHANGED <<now, schedVars, ghostVars, login, otp_requests, otpCalls>>

\* the notice of either calendar handler is sent: the handler returns
CalendarNotified(t) ==
    /\ tasks[t].kind \in {"calendar", "uncalendar"} /\ tasks[t].pc = "notice"
    /\ tasks' = [tasks EXCEPT ![t] = Idle]
    /\ UNCHANGED <<now, authenticated, schedVars, cogVars, ghostVars, extVars>>

\* on_raw_reaction_remove, calendar emoji on the bot reply recorded for
\* request m, which has an event recorded: fetch_member and fetch_message
\* are awaited
UncalendarStart(m) ==
    /\ RequestOfReply(pending_requests, ReplyOf(m)) # None
    /\ RequestOfReply(pending_requests, ReplyOf(m)) \in DOMAIN calendar_events
    /\ \E t \in TaskIds :
          /\ Slot(t)
          /\ tasks' = [tasks EXCEPT ![t] =
                CogTask("uncalendar", "fetch_message",
                        RequestOfReply(pending_requests, ReplyOf(m)))]
    /\ UNCHANGED <<now, authenticated, schedVars, cogVars, ghostVars, extVars>>

\* after delete_group_calendar_event: `del self.calendar_events[...]`
\* (a KeyError is caught and logged), save_state, await channel.send
UncalendarAfterDelete(t, p) ==
    LET m == tasks[t].msg
    IN IF m \in DOMAIN calendar_events
       THEN /\ SetCog(save_state([CogState EXCEPT !.c = DropKey(@, m)], jobs))
            /\ tasks' = [tasks EXCEPT ![t] = [@ EXCEPT !.trace = p.trace,
                                                       !.res = p.res, !.pc = "notice"]]
       ELSE /\ tasks' = [tasks EXCEPT ![t] = Idle]
            /\ UNCHANGED cogVars

\* the recorded id is read (a KeyError is caught and logged) and
\* delete_group_calendar_event is called
UncalendarDelete(t) ==
    /\ tasks[t].kind = "uncalendar" /\ tasks[t].pc = "fetch_message"
    /\ IF tasks[t].msg \notin DOMAIN calendar_events
       THEN /\ tasks' = [tasks EXCEPT ![t] = Idle]
            /\ UNCHANGED cogVars
       ELSE \E o1 \in PostOutcomes :
               LET p == DeleteFirst(authenticated, o1)
               IN IF p.done
                  THEN UncalendarAfterDelete(t, p)
                  ELSE /\ tasks' = [tasks EXCEPT ![t] =
                             [@ EXCEPT !.trace = p.trace, !.pc = "reauth"]]
                       /\ UNCHANGED cogVars
    /\ UNCHANGED <<now, authenticated, schedVars, ghostVars, extVars>>

\* delete_group_calendar_event resumes after _authenticate
UncalendarReauthDone(t) ==
    /\ tasks[t].kind = "uncalendar" /\ tasks[t].pc = "reauth"
    /\ \E authOk \in BOOLEAN, o2 \in PostOutcomes :
          /\ authenticated' = (authenticated \/ authOk)
          /\ UncalendarAfterDelete(t, DeleteRetry(tasks[t].trace, authOk, o2))
    /\ UNCHANGED <<now, schedVars, ghostVars, extVars>>

\* a Job record written before the event times were stored
LegacyJob == NewJob(1, 1, GRACE_TIME + 1)
\* what an earlier run of the program left in Firestore: a request whose
\* Job has no event times, and the bot reply that confirmed it
LegacyPersisted ==
    [pending |-> PutKey(<<>>, 1, ReplyOf(1)), history |-> <<>>,
     jobs |-> <<LegacyJob>>, calendar |-> <<>>]

\* the program after construction, or after on_ready restored the state
\* an earlier run left
InitCal ==
    \E legacy \in BOOLEAN :
       IF ~legacy THEN Init
       ELSE LET l == load_state(LegacyPersisted, 0)
                cs == save_state(l.cs, l.jobs)
            IN /\ now = 0
               /\ authenticated = FALSE
               /\ jobs = l.jobs
               /\ timers = l.timers
               /\ nextId = 2
               /\ pending_requests = cs.p
               /\ queued_announcements = cs.q
               /\ history = cs.h
               /\ calendar_events = cs.c
               /\ persisted = cs.s
               /\ tasks = [t \in TaskIds |-> Idle]
               /\ InitGhost
               /\ InitExt
               /\ store = NewState(DEFAULT_MAX_HISTORY)
               /\ storeLog = NoCalls

NextCal ==
    \/ Login
    \/ \E m \in Msgs : NewRequest(m)
    \/ \E m \in Msgs : ApprovalStart(m)
    \/ \E t \in TaskIds : ApprovalCheck(t)
    \/ \E t \in TaskIds, ok \in BOOLEAN, ann \in TimeSet \ {0} : ApprovalGate(t, ok, ann)
    \/ \E t \in TaskIds : ApprovalRejected(t)
    \/ \E t \in TaskIds : ApprovalQueue(t)
    \/ \E t \in TaskIds : ApprovalSave(t)
    \/ \E m \in Msgs : CalendarStart(m)
    \/ \E t \in TaskIds : CalendarCreate(t)
    \/ \E t \in TaskIds : CalendarReauthDone(t)
    \/ \E t \in TaskIds : CalendarNotified(t)
    \/ \E m \in Msgs : UncalendarStart(m)
    \/ \E t \in TaskIds : UncalendarDelete(t)
    \/ \E t \in TaskIds : UncalendarReauthDone(t)
    \/ \E m \in Msgs : DisapprovalStart(m)
    \/ \E t \in TaskIds : DisapprovalCancel(t)
    \/ \E t \in TaskIds : DisapprovalResume(t)

SpecCal == InitCal /\ [][NextCal]_vars

\* ------------------------------------------------ who may react to what
\* on_raw_reaction_add with the user who reacted: a holder of the admin
\* role, the author of the request (without that role), or another member.
Users == {"admin", "author", "member"}
Emojis == {"approve", "forward", "calendar"}

\* every member passes for an admin
is_admin_anyone(u) == TRUE

\* `member and self.admin_role_id in [role.id for role in member.roles]`
is_admin(u) == u = "admin"
\* `request_message.author.id == payload.user_id`
is_author(u) == u = "author"

\* a reaction e of user u arrives, on request m (approval) or on the bot
\* reply recorded for it: the handler awaits fetch_member
ReactionAdd(u, e, m) ==
    /\ \E t \in TaskIds :
          /\ Slot(t)
          /\ tasks' = [tasks EXCEPT ![t] =
                          [CogTask(e, "fetch_member", m) EXCEPT !.user = u]]
    /\ UNCHANGED <<now, authenticated, schedVars, cogVars, ghostVars, extVars>>

\* from fetch_member to the next await: an approval needs a pending request
\* and the admin role, then fetch_message is awaited; the other two look the
\* request up through the bot reply (a calendar reaction also needs that no
\* event is recorded) and await fetch_message of the request
ReactionDispatch(t) ==
    /\ tasks[t].pc = "fetch_member"
    /\ LET m == tasks[t].msg
           req == RequestOfReply(pending_requests, ReplyOf(m))
       IN tasks' = [tasks EXCEPT ![t] =
             IF tasks[t].kind = "approve"
             THEN IF m \in DOMAIN pending_requests /\ is_admin(tasks[t].user)
                  THEN [@ EXCEPT !.pc = "fetch_message"]
                  ELSE Idle
             ELSE IF tasks[t].kind = "forward"
             THEN IF req # None
                  THEN [@ EXCEPT !.pc = "fetch_request", !.msg = req]
                  ELSE Idle
             ELSE IF req # None /\ req \notin DOMAIN calendar_events
                  THEN [@ EXCEPT !.pc = "fetch_message", !.msg = req]
                  ELSE Idle]
    /\ UNCHANGED <<now, authenticated, schedVars, cogVars, ghostVars, extVars>>

\* the request message is fetched: `if is_admin or is_author`
MayActOnReply(t) == is_admin(tasks[t].user) \/ is_author(tasks[t].user)
ForwardAuthorized(t) == MayActOnReply(t) /\ FastForwardLookup(t)
CalendarAuthorized(t) == MayActOnReply(t) /\ CalendarCreate(t)
\* neither: the handler returns
ReactionDenied(t) ==
    /\ \/ tasks[t].kind = "forward" /\ tasks[t].pc = "fetch_request"
       \/ tasks[t].kind = "calendar" /\ tasks[t].pc = "fetch_message"
    /\ ~MayActOnReply(t)
    /\ tasks' = [tasks EXCEPT ![t] = Idle]
    /\ UNCHANGED <<now, authenticated, schedVars, cogVars, ghostVars, extVars>>

NextRoles ==
    \/ Login
    \/ \E m \in Msgs : NewRequest(m)
    \/ \E u \in Users, e \in Emojis, m \in Msgs : ReactionAdd(u, e, m)
    \/ \E t \in TaskIds : ReactionDispatch(t)
    \/ \E t \in TaskIds : ReactionDenied(t)
    \/ \E t \in TaskIds : ApprovalCheck(t)
    \/ \E t \in TaskIds, ok \in BOOLEAN, ann \in TimeSet \ {0} : ApprovalGate(t, ok, ann)
    \/ \E t \in TaskIds : ApprovalRejected(t)
    \/ \E t \in TaskIds : ApprovalQueue(t)
    \/ \E t \in TaskIds : ApprovalSave(t)
    \/ \E t \in TaskIds : ForwardAuthorized(t)
    \/ \E t \in TaskIds : FastForwardPost(t)
    \/ \E t \in TaskIds : FastForwardReauthDone(t)
    \/ \E t \in TaskIds : FastForwardFailed(t)
    \/ \E t \in TaskIds : FastForwardDone(t)
    \/ \E t \in TaskIds : CalendarAuthorized(t)
    \/ \E t \in TaskIds : CalendarReauthDone(t)
    \/ \E t \in TaskIds : CalendarNotified(t)

SpecRoles == Init /\ [][NextRoles]_vars

\* --------------------------------------------- VRChatAPI authentication
\* The callers of an authentication: bot.py at startup and the Scheduler
\* before a post call initialize(); the wrapped calls and the heartbeat
\* call _authenticate().  login.log lists what the authentication did:
\*   "cookie"      _try_cookie_auth ran with the persisted session cookie
\*   "get_user"    get_current_user with the client's own credentials
\*   "callback"    the OTP callback was asked for a code
\*   "code"/"none" what the callback returned (a code / nothing)
\*   "verify_ok", "verify_400", "verify_error"   the verify call's outcome
\*   "get_user_2fa" get_current_user after the 2FA loop
\*   "save_cookies" _save_cookies was called
\*   "heartbeat_ok", "heartbeat_401", "heartbeat_error"   the outcome of
\*                  the identity call of check_auth_status
\* login.ret is what check_auth_status returns to the heartbeat.
InitializeCallers == {"startup", "scheduler"}
AuthenticateCallers == {"wrapper", "heartbeat"}
\* what the OTP callback can return: None, an empty text, a code
OtpValues == {"None", "", "123456"}
\* Python's `not otp`
NoOtp(otp) == otp \in {"None", ""}
\* get_current_user: success, a 2FA challenge of either kind, 401, other
UserOutcomes == {"ok", "TOTP 2FA", "Email 2FA", "unauthorized", "api_error"}
VerifyOutcomes == {"ok", "400", "error"}

Finished(lg, result) == [lg EXCEPT !.pc = "done", !.result = result]
Logged(lg, steps) == [lg EXCEPT !.log = @ \o steps]

\* VRChatAPI._authenticate up to its first await of the OTP callback
authenticate(lg, o) ==
    LET l1 == Logged(lg, <<"get_user">>)
    IN IF o = "ok" THEN Finished(Logged(l1, <<"save_cookies">>), "password")
       ELSE IF o \in {"TOTP 2FA", "Email 2FA"}
       THEN [Logged(l1, <<"callback">>) EXCEPT !.pc = "otp", !.otp_type = o,
                                             !.rounds = 1]
       ELSE IF o = "unauthorized" THEN Finished(l1, "AUTH_FAIL")
       ELSE Finished(l1, "API_ERROR")

\* a rejected code ends the authentication
otp_loop_gives_up(lg, otp, v, u) ==
    IF NoOtp(otp) THEN Finished(Logged(lg, <<"none">>), "NO_OTP_PROVIDED")
    ELSE IF v = "ok"
    THEN Finished(Logged(lg, <<"code", "verify_ok", "get_user_2fa">>),
                  IF u THEN "2fa" ELSE "AUTH_FAIL_AFTER_2FA")
    ELSE IF v = "400"
    THEN Finished(Logged(lg, <<"code", "verify_400">>), "2FA_FAIL")
    ELSE Finished(Logged(lg, <<"code", "verify_error">>), "2FA_FAIL")

\* a callback that returns no code is asked again, like a rejected code
otp_loop_asks_again(lg, otp, v, u) ==
    IF NoOtp(otp) \/ v = "400"
    THEN [Logged(lg, <<"code", "verify_400", "callback">>)
            EXCEPT !.rounds = @ + 1]
    ELSE IF v = "ok"
    THEN Finished(Logged(lg, <<"code", "verify_ok", "get_user_2fa">>),
                  IF u THEN "2fa" ELSE "AUTH_FAIL_AFTER_2FA")
    ELSE Finished(Logged(lg, <<"code", "verify_error">>), "2FA_FAIL")

\* VRChatAPI._authenticate from the return of the OTP callback to the next
\* await or to the return: one turn of `while True` and what follows it
otp_loop(lg, otp, v, u) ==
    IF NoOtp(otp) THEN Finished(Logged(lg, <<"none">>), "NO_OTP_PROVIDED")
    ELSE IF v = "ok"
    THEN Finished(Logged(lg, <<"code", "verify_ok", "get_user_2fa">>),
                  IF u THEN "2fa" ELSE "AUTH_FAIL_AFTER_2FA")
    ELSE IF v = "400"
    THEN [Logged(lg, <<"code", "verify_400", "callback">>)
            EXCEPT !.rounds = @ + 1]
    ELSE Finished(Logged(lg, <<"code", "verify_error">>), "2FA_FAIL")

AuthSucceeded(lg) == lg.pc = "done" /\ lg.result \in {"cookie", "password", "2fa"}

\* VRChatAPI._authenticate_with_credentials after `await
\* self._authenticate()`: the cookies are saved when that succeeded; lg is
\* the authentication as _authenticate left it, which is still inside
\* _authenticate when it awaits the OTP callback
authenticate_with_credentials(lg) ==
    IF lg.entry \in InitializeCallers /\ AuthSucceeded(lg)
    THEN Logged(lg, <<"save_cookies">>)
    ELSE lg

SetLogin(lg) ==
    /\ login' = lg
    /\ authenticated' = (authenticated \/ AuthSucceeded(lg))

AuthUnchanged ==
    UNCHANGED <<now, schedVars, cogVars, tasks, ghostVars,
                otp_requests, otpCalls, created>>

\* bot.py on_ready / Scheduler._post_announcement: await initialize()
InitializeCall(entry) ==
    /\ login.pc = "idle"
    /\ SetLogin([NoAuth EXCEPT !.pc = "cookie", !.entry = entry])
    /\ AuthUnchanged

\* VRChatAPI.initialize once the persisted cookie is loaded: the cookie is
\* tried, and the credentials only if it yields no identity
TryCookieAuth(valid, o) ==
    /\ login.pc = "cookie"
    /\ LET l1 == Logged(login, <<"cookie">>)
       IN SetLogin(IF valid THEN Finished(l1, "cookie")
                   ELSE authenticate_with_credentials(authenticate(l1, o)))
    /\ AuthUnchanged

\* a wrapped call that met a 401: await _authenticate()
AuthenticateCall(entry, o) ==
    /\ login.pc = "idle"
    /\ SetLogin(authenticate([NoAuth EXCEPT !.entry = entry], o))
    /\ AuthUnchanged

\* the outcomes of the heartbeat's get_current_user
HeartbeatOutcomes == {"ok", "unauthorized", "error"}

\* check_auth_status returns the re-authentication's result without the
\* "reauthenticated" flag
check_auth_status_return_unflagged(lg) ==
    IF lg.entry = "heartbeat" /\ lg.pc = "done"
    THEN [lg EXCEPT !.ret = IF AuthSucceeded(lg) THEN "success" ELSE lg.result]
    ELSE lg

\* VRChatAPI.check_auth_status after `await self._authenticate()`: success
\* flagged as re-authenticated, or the result of _authenticate as it is
check_auth_status_return(lg) ==
    IF lg.entry = "heartbeat" /\ lg.pc = "done"
    THEN [lg EXCEPT !.ret = IF AuthSucceeded(lg) THEN "success_reauthenticated"
                             ELSE lg.result]
    ELSE lg

\* VRChatAPI.check_auth_status up to its await or its return: no client,
\* the identity call with outcome h, and on UnauthorizedException the call
\* of _authenticate, whose get_current_user has outcome o
check_auth_status(client, h, o) ==
    LET lg == [NoAuth EXCEPT !.entry = "heartbeat"]
    IN IF ~client
       THEN [Finished(lg, "API_CLIENT_NOT_INIT") EXCEPT !.ret = "API_CLIENT_NOT_INIT"]
       ELSE IF h = "ok"
       THEN [Finished(Logged(lg, <<"heartbeat_ok">>), "heartbeat")
                EXCEPT !.ret = "success"]
       ELSE IF h = "unauthorized"
       THEN check_auth_status_return(authenticate(Logged(lg, <<"heartbeat_401">>), o))
       ELSE [Finished(Logged(lg, <<"heartbeat_error">>), "HEARTBEAT_ERROR")
                EXCEPT !.ret = "HEARTBEAT_ERROR"]

\* the heartbeat task calls check_auth_status
CheckAuthStatus(client, h, o) ==
    /\ login.pc = "idle"
    /\ LET lg == check_auth_status(client, h, o)
       IN /\ login' = lg
          /\ authenticated' = (authenticated \/ AuthSucceeded(lg)
                                            \/ lg.result = "heartbeat")
    /\ AuthUnchanged

\* the OTP callback returns
OtpCallbackReturned(otp, v, u) ==
    /\ login.pc = "otp"
    /\ (v = "400" /\ ~NoOtp(otp)) => login.rounds < MaxOtpRounds
    /\ SetLogin(check_auth_status_return(
                  authenticate_with_credentials(otp_loop(login, otp, v, u))))
    /\ AuthUnchanged

\* the authentication returns to its caller
AuthReturn ==
    /\ login.pc = "done"
    /\ SetLogin(NoAuth)
    /\ AuthUnchanged

NextAuth ==
    \/ \E entry \in InitializeCallers : InitializeCall(entry)
    \/ \E valid \in BOOLEAN, o \in UserOutcomes : TryCookieAuth(valid, o)
    \/ \E entry \in AuthenticateCallers \ {"heartbeat"}, o \in UserOutcomes :
           AuthenticateCall(entry, o)
    \/ \E client \in BOOLEAN, h \in HeartbeatOutcomes, o \in UserOutcomes :
           CheckAuthStatus(client, h, o)
    \/ \E otp \in OtpValues, v \in VerifyOutcomes, u \in BOOLEAN :
           OtpCallbackReturned(otp, v, u)
    \/ AuthReturn

SpecAuth == Init /\ [][NextAuth]_vars

\* The authentication under the assumption that every OTP request returns
\* (a code, or none on its timeout), with no limit on the number of rounds.
\* The rounds of rejected codes are all alike: once the counter passes
\* MaxOtpRounds the record forgets two of them, which keeps the states
\* finite and every step a change of state.
RoundSteps == <<"code", "verify_400", "callback">>
ForgetRounds(lg) ==
    IF lg.rounds > MaxOtpRounds
    THEN [lg EXCEPT !.rounds = @ - 2,
                    !.log = SubSeq(@, 1, Len(@) - 2 * Len(RoundSteps))]
    ELSE lg

\* the OTP callback returns, after any number of rejected codes
OtpCallbackReturnedAgain(otp, v, u) ==
    /\ login.pc = "otp"
    /\ SetLogin(ForgetRounds(check_auth_status_return(
                  authenticate_with_credentials(otp_loop(login, otp, v, u)))))
    /\ AuthUnchanged

NextAuthLive ==
    \/ \E entry \in InitializeCallers : InitializeCall(entry)
    \/ \E valid \in BOOLEAN, o \in UserOutcomes : TryCookieAuth(valid, o)
    \/ \E entry \in AuthenticateCallers \ {"heartbeat"}, o \in UserOutcomes :
           AuthenticateCall(entry, o)
    \/ \E client \in BOOLEAN, h \in HeartbeatOutcomes, o \in UserOutcomes :
           CheckAuthStatus(client, h, o)
    \/ \E otp \in OtpValues, v \in VerifyOutcomes, u \in BOOLEAN :
           OtpCallbackReturnedAgain(otp, v, u)
    \/ AuthReturn

\* the cookie attempt completes and every OTP request returns
SpecAuthLive ==
    /\ Init
    /\ [][NextAuthLive]_vars
    /\ WF_vars(\E valid \in BOOLEAN, o \in UserOutcomes : TryCookieAuth(valid, o))
    /\ WF_vars(\E otp \in OtpValues, v \in VerifyOutcomes, u \in BOOLEAN :
                  OtpCallbackReturnedAgain(otp, v, u))

\* ------------------------------------------- the OTP requests of the cog
\* Any number of authentications ask for a code at once; the admins answer
\* with messages, each one carrying a code of its own.
OtpIds == 1..MaxOtpRequests
OtpMessages == 1..MaxOtpMessages
\* asyncio.Future()
NewFuture == [state |-> "pending", result |-> None]
\* future.done()
future_done(future) == future.state # "pending"
\* a call of _request_otp: where it is, what it returned, whether wait_for
\* raised TimeoutError, and the messages that set its future's result
NewOtpCall == [pc |-> "send", ret |-> None, timed_out |-> FALSE, by |-> {}]
\* message.content.strip() of the k-th admin message
CodeOf(k) == k

\* every outstanding future gets the message's code
resolve_every(reqs, code) ==
    [id \in DOMAIN reqs |->
        IF ~future_done(reqs[id]) THEN [state |-> "done", result |-> code]
        ELSE reqs[id]]

\* on_message: the first future of the table that is not done gets the
\* message's text, and the handler returns
resolve_first(reqs, code) ==
    LET open == {id \in DOMAIN reqs : ~future_done(reqs[id])}
    IN IF open = {} THEN reqs
       ELSE LET first == CHOOSE id \in open : \A o \in open : id <= o
            IN [reqs EXCEPT ![first] = [state |-> "done", result |-> code]]

\* the admin messages that have set a result so far
Answered == UNION {otpCalls[id].by : id \in DOMAIN otpCalls}

OtpUnchanged ==
    UNCHANGED <<now, authenticated, schedVars, cogVars, tasks, ghostVars,
                login, created>>

\* _request_otp up to `await channel.send`: the future is in the table
RequestOtp ==
    /\ Cardinality(DOMAIN otpCalls) < MaxOtpRequests
    /\ LET id == Cardinality(DOMAIN otpCalls) + 1
       IN /\ otp_requests' = PutKey(otp_requests, id, NewFuture)
          /\ otpCalls' = PutKey(otpCalls, id, NewOtpCall)
    /\ OtpUnchanged

\* _request_otp leaves the table: the finally clause
OtpReturned(id, ret) ==
    /\ otp_requests' = DropKey(otp_requests, id)
    /\ otpCalls' = [otpCalls EXCEPT ![id].pc = "returned", ![id].ret = ret]

\* channel.send returns or raises; wait_for on a future that is done
\* already returns its result without suspending
OtpSent(id, sent) ==
    /\ id \in DOMAIN otpCalls
    /\ otpCalls[id].pc = "send"
    /\ IF ~sent
       THEN /\ otpCalls' = [otpCalls EXCEPT ![id].pc = "raised"]
            /\ UNCHANGED otp_requests
       ELSE IF otp_requests[id].state = "done"
       THEN OtpReturned(id, otp_requests[id].result)
       ELSE /\ otpCalls' = [otpCalls EXCEPT ![id].pc = "wait"]
            /\ UNCHANGED otp_requests
    /\ OtpUnchanged

\* on_message for a message of an admin in the channel
AdminMessage ==
    /\ \E id \in DOMAIN otp_requests : ~future_done(otp_requests[id])
    /\ Cardinality(Answered) < MaxOtpMessages
    /\ LET k == Cardinality(Answered) + 1
           reqs == resolve_first(otp_requests, CodeOf(k))
       IN /\ otp_requests' = reqs
          /\ otpCalls' = [id \in DOMAIN otpCalls |->
                IF id \in DOMAIN reqs /\ reqs[id] # otp_requests[id]
                THEN [otpCalls[id] EXCEPT !.by = @ \cup {k}]
                ELSE otpCalls[id]]
    /\ OtpUnchanged

\* wait_for returns the result of the future
OtpResume(id) ==
    /\ id \in DOMAIN otpCalls
    /\ otpCalls[id].pc = "wait"
    /\ otp_requests[id].state = "done"
    /\ OtpReturned(id, otp_requests[id].result)
    /\ OtpUnchanged

\* the 300 seconds pass: wait_for cancels a future that is pending and
\* raises TimeoutError; when the result was set in the meantime and the
\* waiter has not run yet, the interpreter either returns the result
\* (that is OtpResume) or raises TimeoutError all the same
OtpTimeout(id) ==
    /\ id \in DOMAIN otpCalls
    /\ otpCalls[id].pc = "wait"
    /\ otp_requests' = [otp_requests EXCEPT ![id].state =
                            IF @ = "pending" THEN "cancelled" ELSE @]
    /\ otpCalls' = [otpCalls EXCEPT ![id].pc = "edit", ![id].timed_out = TRUE]
    /\ OtpUnchanged

\* message.edit is done: return None
OtpTimeoutEdited(id) ==
    /\ id \in DOMAIN otpCalls
    /\ otpCalls[id].pc = "edit"
    /\ OtpReturned(id, None)
    /\ OtpUnchanged

NextOtp ==
    \/ RequestOtp
    \/ AdminMessage
    \/ \E id \in OtpIds, sent \in BOOLEAN : OtpSent(id, sent)
    \/ \E id \in OtpIds : OtpResume(id)
    \/ \E id \in OtpIds : OtpTimeout(id)
    \/ \E id \in OtpIds : OtpTimeoutEdited(id)

SpecOtp == Init /\ [][NextOtp]_vars

\* ================================================================ properties
\* a live Job: a record of the job table whose timer is armed
Live(j) == j \in JobIdsOf(jobs) /\ j \in DOMAIN timers

\* C1: at every moment at most one live Job exists for a given request id,
\* under every interleaving of the handlers, including a second approval
\* that arrives while the first approval's handler is suspended.
OneLiveJobPerRequest ==
    \A a, b \in DOMAIN jobs :
        (/\ jobs[a].message_id = jobs[b].message_id
         /\ Live(jobs[a].id) /\ Live(jobs[b].id)) => a = b

\* the snapshots of a list that restore_jobs must not skip at time t
Remaining(list, t) == SelectSeq(list, LAMBDA d : d.timestamp > t)

\* C2: restore_jobs on any list, in any scheduler state: the skipped list is
\* exactly the snapshots with due time <= now, restored_count is the number
\* of the remaining snapshots, and each of those is afterwards in the job
\* table, has a timer and is found by get_job_by_message_id; also for lists
\* with repeated ids and ids that are already live.
RestoreContract ==
    \A list \in SnapshotLists :
        LET r == restore_jobs(jobs, timers, list, now)
            rem == Remaining(list, now)
        IN /\ r.skipped = SelectSeq(list, LAMBDA d : d.timestamp <= now)
           /\ r.count = Len(rem)
           /\ \A i \in DOMAIN rem :
                 /\ rem[i].id \in JobIdsOf(r.jobs)
                 /\ rem[i].id \in DOMAIN r.timers
                 /\ HasJobFor(r.jobs, rem[i].message_id)

\* C3: a request id that is in history is neither in pending_requests nor
\* in queued_announcements, after any sequence of events (a job firing or
\* completing while an approval handler is suspended, a successful
\* fast-forward).
HistoryExcludesPendingAndQueued ==
    \A m \in Range(history) :
        m \notin DOMAIN pending_requests /\ m \notin queued_announcements

\* C4: the completion callback is invoked exactly once for a Job that
\* reached a terminal state and never more than once, also when the
\* callback raises; its argument carries the terminal status.
CallbackExactlyOnce ==
    \A j \in JobIdSet :
        /\ Len(cbLog[j]) <= 1
        /\ execState[j] \in {"success", "failed", "init_failed"} =>
              /\ Len(cbLog[j]) = 1
              /\ cbLog[j][1] = (IF execState[j] = "success" THEN "success"
                                ELSE "failed")

\* C5: a Job whose post failed with the "will retry after re-authentication"
\* error stays in the job table with status pending.
AuthPendingStaysPending ==
    \A j \in JobIdSet :
        execState[j] = "auth_pending" =>
            j \in JobIdsOf(jobs) /\ JobAt(jobs, j).status = "pending"

\* C6: a post failure whose error marks an authentication problem does not
\* invoke the completion callback; any other post failure marks the Job
\* failed and invokes the callback exactly once, with the failed status.
AuthErrorSkipsCallback ==
    \A j \in JobIdSet :
        /\ execState[j] = "auth_pending" => cbLog[j] = <<>>
        /\ execState[j] = "failed" =>
              /\ cbLog[j] = <<"failed">>
              /\ j \in JobIdsOf(jobs) => JobAt(jobs, j).status = "failed"
AuthErrorSeen ==
    \E j \in JobIdSet :
        /\ execState[j] = "auth_pending"
        /\ j \in JobIdsOf(jobs)
        /\ \E k \in JobIdSet : execState[k] = "failed" /\ k \in JobIdsOf(jobs)

RECURSIVE Count(_, _)
Count(trace, S) ==
    IF trace = <<>> THEN 0
    ELSE (IF Head(trace) \in S THEN 1 ELSE 0) + Count(Tail(trace), S)
Posts(trace) == Count(trace, {"post_ok", "post_unauthorized", "post_error"})
Reauths(trace) == Count(trace, {"reauth_ok", "reauth_fail"})

\* C9: one call of post_announcement invokes the post at most twice and
\* re-authenticates at most once; unauthorized, then a successful
\* re-authentication, then a successful post is a success after exactly
\* two invocations and one re-authentication; a failing second invocation
\* is returned as a failure without another re-authentication.
PostAtMostTwice ==
    \A t \in TaskIds :
        LET tr == tasks[t].trace
            returned == tasks[t].kind = "forward" /\ tasks[t].pc \in {"edit", "failure"}
        IN /\ Posts(tr) <= 2
           /\ Reauths(tr) <= 1
           /\ (returned /\ tr = <<"post_unauthorized", "reauth_ok", "post_ok">>)
                 => tasks[t].res.success
           /\ (returned /\ tasks[t].res.success)
                 => tr[Len(tr)] = "post_ok" /\ Posts(tr) = Reauths(tr) + 1
           /\ (returned /\ Posts(tr) = 2 /\ tr[Len(tr)] # "post_ok")
                 => ~tasks[t].res.success /\ Reauths(tr) = 1
PostedOnRetry ==
    \E t \in TaskIds :
        /\ tasks[t].kind = "forward" /\ tasks[t].pc = "edit"
        /\ tasks[t].trace = <<"post_unauthorized", "reauth_ok", "post_ok">>

\* C10: an extracted time more than 3600 seconds before the approval is
\* rejected with the past-time warning and schedule_announcement is not
\* called; otherwise it is called once and the confirmation is produced;
\* no Job made by an approval is due earlier than 3600 seconds before the
\* moment it was made.
StalenessGate ==
    \A t \in TaskIds :
        tasks[t].kind = "approve" =>
            /\ tasks[t].pc = "warning" =>
                  /\ tasks[t].timestamp < tasks[t].at - 3600
                  /\ tasks[t].job = None
            /\ tasks[t].pc \in {"confirmation", "reactions"} =>
                  /\ tasks[t].timestamp >= tasks[t].at - 3600
                  /\ tasks[t].due >= tasks[t].at - 3600
                  /\ tasks[t].job # None
                  /\ tasks[t].job \in JobIdsOf(jobs) =>
                        JobAt(jobs, tasks[t].job).timestamp >= tasks[t].at - 3600
RejectedAndAccepted ==
    \E t, u \in TaskIds :
        /\ tasks[t].kind = "approve" /\ tasks[t].pc = "warning"
        /\ tasks[u].kind = "approve" /\ tasks[u].pc = "confirmation"
        /\ tasks[u].timestamp = tasks[u].at - 3600

\* a sequence without a repeated item
Distinct(q) == \A a, b \in DOMAIN q : q[a] = q[b] => a = b

\* C11: the history of the state store is a capacity-bounded FIFO of
\* distinct ids: it is never longer than the capacity and never holds an id
\* twice; after distinct ids were completed it is the last `cap` of them in
\* completion order (all of them while there are at most `cap`); completing
\* an id that is in history leaves history unchanged.
HistoryBoundedFifo ==
    LET h == store.history
        cap == store.max_history
        done == storeLog.completed
    IN /\ Len(h) <= cap
       /\ Distinct(h)
       /\ Distinct(done) =>
             h = (IF Len(done) > cap
                  THEN SubSeq(done, Len(done) - cap + 1, Len(done))
                  ELSE done)
       /\ (/\ storeLog.op = "mark_completed"
           /\ storeLog.arg \in Range(storeLog.before.history))
             => h = storeLog.before.history
HistoryEvicted ==
    /\ Distinct(storeLog.completed)
    /\ Len(storeLog.completed) > store.max_history
    /\ store.max_history > 1
    /\ Len(store.history) = store.max_history

\* C12: cancel of a queued request returns the calendar event id linked to
\* it, or None when there is none; afterwards the request is not queued,
\* has no calendar event, is still pending and its bot reply id is None.
CancelReturnsCalendar ==
    (/\ storeLog.op = "cancel"
     /\ storeLog.arg \in storeLog.before.queued_announcements) =>
        LET m == storeLog.arg
            was == storeLog.before.calendar_events
        IN /\ storeLog.ret = (IF m \in DOMAIN was THEN was[m] ELSE None)
           /\ m \notin store.queued_announcements
           /\ m \notin DOMAIN store.calendar_events
           /\ m \in DOMAIN store.pending_requests
           /\ store.pending_requests[m] = None
CancelledWithCalendar ==
    /\ storeLog.op = "cancel"
    /\ storeLog.arg \in storeLog.before.queued_announcements
    /\ storeLog.ret # None

\* no handler is in progress
Quiescent == \A t \in TaskIds : tasks[t].kind = "idle"

\* the live table holds an active (pending) Job for request m
HasActiveJob(m) ==
    \E i \in DOMAIN jobs :
        /\ jobs[i].message_id = m
        /\ jobs[i].status = "pending"
        /\ jobs[i].id \in DOMAIN timers

\* C13: whenever no handler is in progress, a request id is in
\* queued_announcements if and only if the live table holds an active
\* (pending) Job for it: after a disapproval, a fast-forward, the admin
\* cancel command, a job completion and the startup restore.
QueuedIffActiveJob ==
    Quiescent => \A m \in Msgs : (m \in queued_announcements <=> HasActiveJob(m))

\* C14: whenever no handler is in progress, every Job of the last persisted
\* snapshot is still in the live table, so that a restart cannot bring a
\* removed Job back.
PersistedWithinLive ==
    Quiescent => JobIdsOf(persisted.jobs) \subseteq JobIdsOf(jobs)

\* what save_state writes in the current state
Checkpoint ==
    [pending |-> pending_requests, history |-> history,
     jobs |-> get_jobs_data(jobs), calendar |-> calendar_events]

\* C15: on a completion callback the request moves to history (and leaves
\* queued and pending) only when the Job's status is success; for a failed
\* Job history is left alone; either way the state is persisted.
HistoryOnlyOnSuccess ==
    [][\A j \in JobIdSet :
          Len(cbLog'[j]) > Len(cbLog[j]) =>
             /\ persisted' = Checkpoint'
             /\ cbLog'[j][Len(cbLog'[j])] = "failed" => history' = history
             /\ cbLog'[j][Len(cbLog'[j])] = "success" =>
                   LET m == JobAt(jobs, j).message_id
                   IN /\ m \in Range(history')
                      /\ m \notin queued_announcements'
                      /\ m \notin DOMAIN pending_requests']_vars

\* C16: a Job whose post succeeded is marked success and leaves the live
\* table; a Job whose post failed for a reason other than authentication
\* stays in the live table with status failed, and is not executed again
\* while the process lives: it has no timer, no execution of it is under
\* way, and its outcome only changes when a new process starts.
FailedJobStaysFailed ==
    [][\A j \in JobIdSet :
          /\ execState'[j] = "success" =>
                j \notin JobIdsOf(jobs') /\ cbLog'[j] = <<"success">>
          /\ execState'[j] = "failed" =>
                /\ j \in JobIdsOf(jobs') /\ JobAt(jobs', j).status = "failed"
                /\ j \notin DOMAIN timers'
                /\ \A t \in TaskIds : ~(tasks'[t].kind = "job" /\ tasks'[t].job = j)
          /\ execState[j] = "failed" =>
                \/ execState'[j] = "failed" /\ cbLog'[j] = cbLog[j]
                \/ Restart]_vars
FailedJobKept ==
    \E j \in JobIdSet :
        /\ execState[j] = "failed" /\ j \in JobIdsOf(jobs)
        /\ now = GRACE_TIME + 1

PostDidNotSucceed(j) ==
    execState[j] \in {"failed", "auth_pending", "init_failed", "missed", "lost"}

\* Job j of request m completed: one callback with status success, m in
\* history and out of the queue, j out of the live table
Completed(j, m) ==
    /\ execState[j] = "success"
    /\ cbLog[j] = <<"success">>
    /\ m \in Range(history)
    /\ m \notin queued_announcements
    /\ j \notin JobIdsOf(jobs)
    /\ j \notin DOMAIN timers

\* C17: a request that was submitted and approved with a due time in the
\* future, and whose Job is not cancelled, is eventually completed when
\* the post at the due time succeeds: the callback has fired once, the
\* request is in history and not in queued_announcements, and the Job is
\* not in the live table.
ApprovedEventuallyCompleted ==
    \A j \in JobIdSet, m \in Msgs :
        (/\ Live(j)
         /\ JobAt(jobs, j).message_id = m
         /\ JobAt(jobs, j).timestamp > now)
            ~> (Completed(j, m) \/ PostDidNotSucceed(j))
CompletedLater ==
    \E j \in JobIdSet, m \in Msgs : Completed(j, m) /\ now > 0 /\ Quiescent

\* the invocations of the underlying operation in a trace
Invocations(trace) ==
    Count(trace, {"post_ok", "post_unauthorized", "post_error",
                  "create_ok", "create_unauthorized", "create_error",
                  "delete_ok", "delete_unauthorized", "delete_error"})

\* C19: a wrapped call (post, create calendar event, delete calendar
\* event) that starts while the wrapper is not authenticated returns at
\* once with the not-authenticated error, has not invoked the underlying
\* operation, has not re-authenticated, and leaves the wrapper
\* unauthenticated.
UnauthenticatedCallRefused ==
    [][\A t \in TaskIds :
          (/\ ~authenticated
           /\ tasks[t].kind = "idle"
           /\ tasks'[t].kind \in ApiOps)
             => /\ tasks'[t].pc = "returned"
                /\ tasks'[t].res = Fail(NOT_AUTHENTICATED)
                /\ Invocations(tasks'[t].trace) = 0
                /\ Reauths(tasks'[t].trace) = 0
                /\ ~authenticated']_vars
RefusedCall ==
    \E t \in TaskIds :
        /\ tasks[t].kind \in ApiOps /\ tasks[t].pc = "returned"
        /\ tasks[t].res = Fail(NOT_AUTHENTICATED)

\* C20: a wrapped call whose underlying operation raised an authorization
\* error and whose re-authentication failed returns the "auth failed, will
\* retry" error; the underlying operation was invoked exactly once,
\* before the single re-authentication, and not after it.
ReauthFailureReturnsRetryError ==
    \A t \in TaskIds :
        LET tr == tasks[t].trace
        IN (/\ tasks[t].kind \in ApiOps
            /\ tasks[t].pc = "returned"
            /\ Count(tr, {"reauth_fail"}) > 0)
              => /\ tasks[t].res = Fail(AUTH_FAIL_RETRY)
                 /\ Invocations(tr) = 1
                 /\ Reauths(tr) = 1
                 /\ tr[Len(tr)] = "reauth_fail"
ReauthFailed ==
    \E t \in TaskIds :
        /\ tasks[t].kind = "create_group_calendar_event"
        /\ tasks[t].pc = "returned"
        /\ tasks[t].trace = <<"create_unauthorized", "reauth_fail">>

\* C26: every timer, made by schedule_announcement or re-made by
\* restore_jobs, tolerates a lateness of up to 3600 seconds: a Job is
\* dropped as a missed fire only when its timer is serviced more than
\* 3600 seconds after its due time.
LateWithinGraceStillRuns ==
    [][\A j \in JobIdSet :
          (/\ j \in DOMAIN timers
           /\ execState[j] # "missed"
           /\ execState'[j] = "missed")
             => now - timers[j].run_date > GRACE_TIME]_vars

\* a step by which the handler in frame t turns its request down, or
\* returns after it did
Rejecting(t) ==
    \/ tasks[t].kind = "idle" /\ tasks'[t].kind = "request"
    \/ tasks[t].kind = "request" /\ tasks'[t].kind = "idle"
    \/ /\ tasks[t].kind = "approve" /\ tasks[t].pc = "extract"
       /\ tasks'[t].pc \in {"error", "warning"}
    \/ /\ tasks[t].kind = "approve" /\ tasks[t].pc \in {"error", "warning"}
       /\ tasks'[t].kind = "idle"

\* C27: a new request whose id is already queued or in history, an
\* approval whose extraction fails and an approval stopped by the staleness
\* gate leave pending, queued, history, calendar and the job table (with
\* its timers) as they were and write nothing to the persistence.
RejectionChangesNothing ==
    [][(\E t \in TaskIds : Rejecting(t))
          => UNCHANGED <<pending_requests, queued_announcements, history,
                         calendar_events, persisted, jobs, timers, nextId>>]_vars
RejectedWhileUnsaved ==
    \E t \in TaskIds :
        /\ tasks[t].kind = "request"
        /\ persisted # Checkpoint

\* C24: a fast-forward on a queued request whose Job is pending takes the
\* Job out of the live table and disarms its timer, so that no timer is
\* left that would post the request later, and calls the post operation
\* directly; when the post succeeded the request leaves
\* queued_announcements, enters history and the state is persisted.
FastForwardBypassesTimer ==
    [][\A t \in TaskIds :
          /\ (/\ tasks[t].kind = "forward" /\ tasks[t].pc = "fetch_processing"
              /\ tasks'[t].kind = "forward" /\ tasks'[t].pc # "fetch_processing"
              /\ Live(tasks[t].job))
                => /\ tasks[t].job \notin JobIdsOf(jobs')
                   /\ tasks[t].job \notin DOMAIN timers'
                   /\ \A i \in DOMAIN jobs' :
                         jobs'[i].message_id = tasks[t].msg
                            => jobs'[i].id \notin DOMAIN timers'
                   /\ tasks'[t].pc \in {"reauth", "edit", "failure"}
          /\ (/\ tasks[t].kind = "forward" /\ tasks[t].pc = "edit"
              /\ tasks'[t].kind = "idle" /\ ~Restart)
                => /\ tasks[t].msg \notin queued_announcements'
                   /\ tasks[t].msg \in Range(history')
                   /\ persisted' = Checkpoint']_vars

EveryJobHasEventTitle ==
    /\ \A i \in DOMAIN jobs :
          /\ "event_title" \in DOMAIN jobs[i]
          /\ jobs[i].event_title \in Titles \cup EventTitles
    /\ \A d \in TitledSnapshots :
          restored_record(d).event_title =
             (IF "event_title" \in DOMAIN d THEN d.event_title ELSE d.title)
    /\ \A title \in Titles, event_title \in EventTitles \cup {NoTitle} :
          job_titles(<<>>, title, event_title).event_title =
             (IF event_title \in EventTitles THEN event_title ELSE title)
DefaultedEventTitles ==
    /\ Len(jobs) = 2
    /\ restoreCalls = 1
    /\ \A i \in DOMAIN jobs : jobs[i].event_title = jobs[i].title

\* the log entries of a verify call
Verifies == {"verify_ok", "verify_400", "verify_error"}

\* C21: in an authentication, the OTP callback is asked once when the 2FA
\* challenge arrives and exactly once more after each code the platform
\* rejects with status 400; a code that is accepted ends the loop, and a
\* callback that returns no code ends the authentication with
\* "no OTP provided", with no callback and no verify call afterwards; the
\* verify calls are as many as the codes the callback returned.
OtpLoopCountsCodes ==
    LET L == login.log
    IN /\ Count(L, Verifies) = Count(L, {"code"})
       /\ Count(L, {"callback"}) =
             (IF "callback" \in Range(L) THEN 1 ELSE 0) + Count(L, {"verify_400"})
       /\ \A i \in DOMAIN L :
            /\ L[i] = "verify_400" => (i < Len(L) /\ L[i + 1] = "callback")
            /\ L[i] = "callback" =>
                  IF i = Len(L) THEN login.pc = "otp"
                  ELSE L[i + 1] \in {"code", "none"}
            /\ L[i] = "code" => (i < Len(L) /\ L[i + 1] \in Verifies)
            /\ L[i] = "verify_ok" =>
                  /\ login.pc = "done"
                  /\ \A k \in (i + 1)..Len(L) :
                        L[k] \notin Verifies \cup {"callback", "code", "none"}
            /\ L[i] = "none" =>
                  /\ i = Len(L)
                  /\ login.pc = "done"
                  /\ login.result = "NO_OTP_PROVIDED"

\* a code was rejected, another was asked for and accepted
SecondCodeAccepted ==
    /\ Count(login.log, {"verify_400"}) >= 1
    /\ "verify_ok" \in Range(login.log)

\* C30: every re-authentication, whether a wrapped call, the heartbeat or
\* the Scheduler started it, tries the persisted session cookie first and
\* uses the credentials only when the cookie yields no identity.
ReauthTriesCookieFirst ==
    (/\ login.entry \in {"wrapper", "heartbeat", "scheduler"}
     /\ "get_user" \in Range(login.log))
       => login.log[1] = "cookie"

\* C22: with several OTP requests outstanding, an admin message sets the
\* result of at most one request and a request gets its result from at most
\* one message, so no code reaches two requests and a returned code is the
\* one of the message that answered this request; a request that timed out
\* returns no code; and a request that has returned, with a code or on the
\* timeout, is no longer in otp_requests.
OtpRequestsDoNotCross ==
    \A id \in DOMAIN otpCalls :
        LET call == otpCalls[id]
        IN /\ Cardinality(call.by) <= 1
           /\ \A other \in DOMAIN otpCalls \ {id} :
                 call.by \cap otpCalls[other].by = {}
           /\ call.pc = "returned" =>
                 /\ id \notin DOMAIN otp_requests
                 /\ call.timed_out => call.ret = None
                 /\ call.ret # None => call.ret \in {CodeOf(k) : k \in call.by}
                 /\ (~call.timed_out) => call.ret \in {CodeOf(k) : k \in call.by}

\* two requests answered by two messages, a third one timed out and returned
ThreeRequestsTwoCodes ==
    \E a, b, c \in DOMAIN otpCalls :
        /\ a # b
        /\ otpCalls[a].pc = "returned" /\ otpCalls[a].ret # None
        /\ otpCalls[b].pc = "returned" /\ otpCalls[b].ret # None
        /\ otpCalls[c].pc = "returned" /\ otpCalls[c].timed_out

\* the calls of the venue platform's calendar-create operation in a trace
Creates == {"create_ok", "create_unauthorized", "create_error"}

\* C25: the calendar-create operation is called for a request only while
\* no calendar event is recorded for it, its Job exists and the Job has
\* both event times; and however the calendar signals for one request
\* interleave, a recorded event id is never replaced by another one, so a
\* second signal neither creates a second event nor overwrites the id.
OneCalendarEventPerRequest ==
    [][/\ \A t \in TaskIds :
            (/\ tasks[t].kind = "calendar" /\ tasks'[t].kind = "calendar"
             /\ Count(tasks'[t].trace, Creates) > Count(tasks[t].trace, Creates))
               => LET m == tasks[t].msg
                  IN /\ m \notin DOMAIN calendar_events
                     /\ HasJobFor(jobs, m)
                     /\ ~Falsy(job_get(get_job_by_message_id(jobs, m),
                                       "event_start_timestamp"))
                     /\ ~Falsy(job_get(get_job_by_message_id(jobs, m),
                                       "event_end_timestamp"))
       /\ \A m \in DOMAIN calendar_events :
            m \in DOMAIN calendar_events' => calendar_events'[m] = calendar_events[m]
      ]_vars

\* C23: when the approval is withdrawn from a queued request and its Job
\* can be cancelled, the Job leaves the scheduler at once, and when the
\* handler is over the request is out of queued_announcements, its bot
\* reply id is null, no calendar event is recorded for it and the state is
\* persisted; when the Job cannot be cancelled, pending, queued, history
\* and calendar stay as they are.
DisapprovalCleansUp ==
    [][\A t \in TaskIds :
          tasks[t].kind = "disapprove" =>
             LET m == tasks[t].msg
                 c == cancel_job_by_message_id(jobs, timers, m)
                 cancelling == tasks[t].pc = "fetch_message" /\ tasks'[t] # tasks[t]
             IN /\ (cancelling /\ ~c.result) =>
                      UNCHANGED <<pending_requests, queued_announcements,
                                  history, calendar_events>>
                /\ (cancelling /\ c.result) =>
                      LET j == get_job_by_message_id(jobs, m).id
                      IN j \notin JobIdsOf(jobs') /\ j \notin DOMAIN timers'
                /\ (/\ tasks'[t].kind = "idle"
                    /\ cancelling => c.result) =>
                      /\ m \notin queued_announcements'
                      /\ m \in DOMAIN pending_requests'
                      /\ pending_requests'[m] = None
                      /\ m \notin DOMAIN calendar_events'
                      /\ persisted' = Checkpoint'
      ]_vars

\* C37: in the standalone state store, with add_pending called only for a
\* request that is neither queued nor in history and mark_queued,
\* mark_completed and cancel called on any request id, a request id in
\* history is neither a key of pending_requests nor in queued_announcements.
CompletedIsNeitherPendingNorQueued ==
    \A m \in Range(store.history) :
        /\ m \notin DOMAIN store.pending_requests
        /\ m \notin store.queued_announcements

\* C40: in every state and for every job id, cancel returns true exactly
\* when it takes the Job's record out of the live table; when it returns
\* false (an unknown id, or a Job whose timer has fired, a retained failed
\* Job included) the table and the timers are as before; so neither cancel
\* nor cancel_by_request removes a Job retained with status failed.
CancelTrueIffRemoved ==
    /\ \A j \in JobIdSet :
          LET c == cancel_job(jobs, timers, j)
          IN /\ c.result = (j \in JobIdsOf(jobs) /\ j \notin JobIdsOf(c.jobs))
             /\ c.result => j \notin DOMAIN c.timers
             /\ ~c.result => (c.jobs = jobs /\ c.timers = timers)
             /\ (j \notin JobIdsOf(jobs) \/ j \notin DOMAIN timers) => ~c.result
             /\ (j \in JobIdsOf(jobs) /\ JobAt(jobs, j).status = "failed") =>
                   ~c.result
    /\ \A m \in Msgs :
          LET c == cancel_job_by_message_id(jobs, timers, m)
          IN /\ ~c.result => (c.jobs = jobs /\ c.timers = timers)
             /\ \A j \in JobIdsOf(jobs) :
                   JobAt(jobs, j).status = "failed" => j \in JobIdsOf(c.jobs)

\* a failed Job is retained, after another Job was cancelled
FailedJobOutlivesCancel ==
    /\ \E j \in JobIdsOf(jobs) : JobAt(jobs, j).status = "failed"
    /\ \E k \in JobIdSet : cancelled[k] > 0

\* a coroutine of _post_announcement for job j is suspended
Executing(j) == \E t \in TaskIds : tasks[t].kind = "job" /\ tasks[t].job = j

\* C39: in every reachable state each timer belongs to a record of the job
\* table, so a timer that fires finds its record; and list_jobs returns
\* exactly the records that still have a timer: a Job that is executing,
\* failed or stuck after an authentication failure is not listed, although
\* get_jobs_data and get_job_by_message_id still know it.
NoOrphanTimerListIsArmed ==
    /\ DOMAIN timers \subseteq JobIdsOf(jobs)
    /\ LET listed == list_jobs(jobs, timers)
       IN /\ Range(listed) = {jobs[i] : i \in {k \in DOMAIN jobs :
                                                jobs[k].id \in DOMAIN timers}}
          /\ Len(listed) = Cardinality(Range(listed))
          /\ \A i \in DOMAIN jobs :
                (jobs[i].status = "failed" \/ Executing(jobs[i].id)) =>
                   /\ jobs[i] \notin Range(listed)
                   /\ jobs[i] \in Range(get_jobs_data(jobs))
                   /\ HasJobFor(jobs, jobs[i].message_id)

\* one Job is listed while another one is retained as failed
ListedBesideFailed ==
    /\ list_jobs(jobs, timers) # <<>>
    /\ \E i \in DOMAIN jobs : jobs[i].status = "failed"

\* C32: a Job that fires while the wrapper is not authenticated awaits the
\* authentication before any post; when the authentication fails the Job
\* is marked failed in the table, the completion callback is invoked once
\* with the failed status, and no post is made for the Job, then or later
\* in the life of the process.
FailedLoginFailsJobUnposted ==
    [][\A j \in JobIdSet :
          /\ (execState[j] # "running" /\ execState'[j] = "running"
              /\ ~authenticated) =>
                \E t \in TaskIds : tasks'[t] = JobTask(j, "initialize", <<>>)
          /\ (execState[j] = "running" /\ execState'[j] = "init_failed") =>
                /\ \E t \in TaskIds : /\ tasks[t] = JobTask(j, "initialize", <<>>)
                                      /\ tasks'[t] = Idle
                /\ j \in JobIdsOf(jobs') /\ JobAt(jobs', j).status = "failed"
                /\ cbLog[j] = <<>> /\ cbLog'[j] = <<"failed">>
          /\ execState[j] = "init_failed" =>
                \/ Restart
                \/ /\ execState'[j] = "init_failed"
                   /\ cbLog'[j] = cbLog[j]
                   /\ \A t \in TaskIds :
                         ~(tasks'[t].kind = "job" /\ tasks'[t].job = j)]_vars

\* a Job failed because the authentication before its post failed
JobFailedAtLogin ==
    \E j \in JobIdSet :
        /\ execState[j] = "init_failed"
        /\ cbLog[j] = <<"failed">>
        /\ j \in JobIdsOf(jobs)

\* C38: the announcement of one Job is posted successfully at most once:
\* never both by the Job's own execution from the timer and by a
\* fast-forward of the same Job, whatever way the two interleave.
JobPostedAtMostOnce ==
    \A t \in TaskIds :
        (tasks[t].kind = "forward" /\ tasks[t].pc = "edit"
         /\ tasks[t].res.success) =>
            execState[tasks[t].job] # "success"

\* the fast-forward of a Job has posted while the Job's own execution is
\* suspended in the re-authentication: that execution does not post
\* successfully when it resumes
SuspendedJobDoesNotPostAfterForward ==
    [][\A t, u \in TaskIds :
          (/\ tasks[t].kind = "job" /\ tasks[t].pc \in {"initialize", "reauth"}
           /\ tasks[u].kind = "forward" /\ tasks[u].pc = "edit"
           /\ tasks[u].res.success /\ tasks[u].job = tasks[t].job
           /\ nextId = 2) =>
              execState'[tasks[t].job] # "success"]_vars

\* C31: an authentication with the primary credentials that is about to
\* return success, directly or through an OTP challenge, started by
\* initialize or as a re-authentication by a wrapped call or the heartbeat,
\* has called _save_cookies after the identity call that succeeded.
SuccessSavesCookies ==
    (login.pc = "done" /\ login.result \in {"password", "2fa"}) =>
        /\ login.log # <<>>
        /\ login.log[Len(login.log)] = "save_cookies"

\* the same for the authentications that initialize starts
InitializeSavesCookies ==
    (login.pc = "done" /\ login.result \in {"password", "2fa"}
     /\ login.entry \in InitializeCallers) =>
        /\ login.log # <<>>
        /\ login.log[Len(login.log)] = "save_cookies"

\* C33: check_auth_status whose identity call succeeds returns success with
\* no authentication attempted; on an authorization failure it makes one
\* call of _authenticate and no other attempt, and returns success flagged
\* as re-authenticated when that call succeeds and that call's error when
\* it fails.
HeartbeatReauthenticatesOnce ==
    LET L == login.log
    IN (login.entry = "heartbeat" /\ L # <<>>) =>
          /\ "cookie" \notin Range(L)
          /\ L[1] = "heartbeat_ok" =>
                /\ Count(L, {"get_user"}) = 0
                /\ login.pc = "done" /\ login.ret = "success"
          /\ L[1] = "heartbeat_401" =>
                /\ Count(L, {"get_user"}) = 1
                /\ login.pc = "done" =>
                      login.ret = IF login.result \in {"password", "2fa"}
                                  THEN "success_reauthenticated"
                                  ELSE login.result
                /\ login.pc = "done" => login.result \notin {"-", "heartbeat"}
          /\ L[1] \notin {"heartbeat_ok", "heartbeat_401"} =>
                /\ L = <<"heartbeat_error">>
                /\ login.ret = "HEARTBEAT_ERROR"

\* the heartbeat found the session expired and re-authenticated through an
\* OTP challenge
HeartbeatReauthenticated ==
    /\ login.entry = "heartbeat"
    /\ login.pc = "done"
    /\ login.ret = "success_reauthenticated"
    /\ login.result = "2fa"

\* the heartbeat's re-authentication failed and its error is returned
HeartbeatReturnsReauthError ==
    /\ login.entry = "heartbeat"
    /\ login.pc = "done"
    /\ login.ret = "NO_OTP_PROVIDED"

\* C34: when every OTP request returns, with a code or with none, an
\* authentication that has started returns success or failure in the end.
AuthenticationReturns ==
    (login.pc \in {"cookie", "otp"}) ~> (login.pc = "done")

\* the first OTP request that yields no code ends the authentication with
\* the failure "no OTP provided"
NoCodeEndsAuthentication ==
    [][\A otp \in OtpValues, v \in VerifyOutcomes, u \in BOOLEAN :
          (NoOtp(otp) /\ OtpCallbackReturnedAgain(otp, v, u)) =>
              (login'.pc = "done" /\ login'.result = "NO_OTP_PROVIDED")]_vars

\* C34 as it holds: an authentication returns failure at the first OTP
\* request that yields no code, and it returns in the end unless the
\* platform goes on rejecting the codes it is given for ever.
AuthenticationReturnsUnlessRejectedForever ==
    /\ NoCodeEndsAuthentication
    /\ (<>[][login'.rounds <= login.rounds]_vars) => AuthenticationReturns

\* codes were rejected and then an OTP request timed out
NoCodeAfterRejectedCodes ==
    /\ login.pc = "done"
    /\ login.result = "NO_OTP_PROVIDED"
    /\ Count(login.log, {"verify_400"}) >= 2


\* the calendar_events mapping as save_state last wrote it
PersistedCalendar(s) == load_data(s, "calendar", <<>>)

\* C35: a calendar-removal handler is started only for a request with a
\* recorded event, and once its call of delete_group_calendar_event has
\* returned, with success or with failure, the request has no entry in
\* calendar_events and the persisted state has none either.
CalendarRemovalForgetsEvent ==
    [][\A t \in TaskIds :
          LET m == tasks[t].msg
          IN /\ (tasks[t].kind # "uncalendar" /\ tasks'[t].kind = "uncalendar") =>
                   tasks'[t].msg \in DOMAIN calendar_events
             /\ (/\ tasks[t].kind = "uncalendar"
                 /\ tasks'[t] # tasks[t]
                 /\ \/ tasks[t].pc = "reauth"
                    \/ /\ tasks[t].pc = "fetch_message"
                       /\ m \in DOMAIN calendar_events
                       /\ tasks'[t].pc # "reauth") =>
                   /\ m \notin DOMAIN calendar_events'
                   /\ m \notin DOMAIN PersistedCalendar(persisted')]_vars

\* the platform refused to delete the event and the mapping is gone all
\* the same, in memory and in the persisted state
MappingGoneAfterFailedDelete ==
    \E t \in TaskIds :
        /\ tasks[t].kind = "uncalendar"
        /\ tasks[t].pc = "notice"
        /\ ~tasks[t].res.success
        /\ tasks[t].msg \notin DOMAIN calendar_events
        /\ tasks[t].msg \notin DOMAIN PersistedCalendar(persisted)

\* whatever overlaps it, the removal leaves no entry in calendar_events
CalendarRemovalDropsMapping ==
    [][\A t \in TaskIds :
          (/\ tasks[t].kind = "uncalendar"
           /\ tasks'[t] # tasks[t]
           /\ \/ tasks[t].pc = "reauth"
              \/ /\ tasks[t].pc = "fetch_message"
                 /\ tasks'[t].pc # "reauth") =>
             tasks[t].msg \notin DOMAIN calendar_events']_vars

\* the user of handler frame f may act, and f is past the permission check
MayReact(f) ==
    IF f.kind = "approve" THEN f.user = "admin"
    ELSE f.user \in {"admin", "author"}
PastPermissionCheck(f) ==
    /\ f.kind \in Emojis
    /\ f.pc # "fetch_member"
    /\ f.kind = "forward" => f.pc # "fetch_request"
    /\ f.kind = "calendar" => f.pc # "fetch_message"

\* C36: a reaction handler that goes past its permission check belongs to a
\* user who may act (the admin role for an approval; the admin role or the
\* authorship of the request for a fast-forward or a calendar reaction), so
\* the extraction, schedule_announcement, the post and the calendar call
\* are never reached for anyone else; and every step of the handler of a
\* user who may not act leaves pending_requests, queued_announcements,
\* history, calendar_events, the persisted state, the job table and the
\* timers as they are.
UnauthorizedReactionChangesNothing ==
    [][\A t \in TaskIds :
          /\ PastPermissionCheck(tasks'[t]) => MayReact(tasks'[t])
          /\ (tasks[t].kind \in Emojis /\ ~MayReact(tasks[t])
              /\ tasks'[t] # tasks[t]) =>
                /\ UNCHANGED <<cogVars, schedVars, created, authenticated>>
                /\ \/ tasks'[t] = Idle
                   \/ /\ tasks[t].pc = "fetch_member"
                      /\ tasks[t].kind # "approve"
                      /\ tasks'[t].user = tasks[t].user
                      /\ ~PastPermissionCheck(tasks'[t])]_vars

\* the fast-forward reaction of a member who is neither admin nor author
\* is being handled for a request that has a live Job
StrangerForwardsQueuedRequest ==
    \E t \in TaskIds :
        /\ tasks[t].kind = "forward"
        /\ tasks[t].pc = "fetch_request"
        /\ tasks[t].user = "member"
        /\ HasJobFor(jobs, tasks[t].msg)
        /\ tasks[t].msg \in queued_announcements

====
